---- MODULE Spec2Model ----
(***************************************************************************)
(* Woods Hole water clarity server (server.ts): the rate-limited gates in  *)
(* front of Stormglass (waves) and OpenWeather (rain), the refresh         *)
(* orchestrator, the scoring engine and the forecast table.                *)
(*                                                                         *)
(* Instants are minutes since the epoch.  An ISO string of the source is   *)
(* the instant it denotes: Date -> toISOString -> new Date is exact.       *)
(* Penalty magnitudes are fixed point in 1/1000, weights in 1/10, scores   *)
(* in 1/10000 (so 100 points is ScoreMax).                                 *)
(***************************************************************************)
EXTENDS Integers, Sequences, FiniteSets, TLC

\* ------------------------------------------------------------------ bounds
\* Instant at which the server starts (20:00 of day 0), the last instant the
\* clock is advanced to, and the step of the clock.
StartNow == 1200
MaxNow == 1500
TickMinutes == 30
\* Operations that can be in flight at the same time.
MaxProcs == 2

\* ----------------------------------------------------------- configuration
MAX_FORECAST_HOURS == 72
STORMGLASS_CACHE_HOURS == 3
\* process.env.STORMGLASS_MAX_DAILY_REQUESTS (default "8") and
\* process.env.OPENWEATHER_MAX_REQUESTS_PER_MINUTE (default "50"): the
\* deployment modelled here configures small ceilings.
STORMGLASS_MAX_DAILY_REQUESTS == 2
OPENWEATHER_MAX_REQUESTS_PER_MINUTE == 2

MinutesPerHour == 60
MinutesPerDay == 1440
ScoreMax == 1000000

NullTime == 0 - 1
Null == [null |-> TRUE]

\* new Date().toISOString().split('T')[0]: the UTC day of an instant.
DayOf(t) == t \div MinutesPerDay
\* new Date().toISOString().slice(0, 16): the minute of an instant.
MinuteOf(t) == t

\* ---------------------------------------------------------------- utilities
Max2(a, b) == IF a >= b THEN a ELSE b
Min2(a, b) == IF a <= b THEN a ELSE b
Abs(a) == IF a < 0 THEN 0 - a ELSE a

\* A clamp that has lost its lower bound.
clampNoFloor(value, min, max) == Min2(value, max)
clamp(value, min, max) == Min2(Max2(value, min), max)

normalizeAngle(degrees) == ((degrees % 360) + 360) % 360

\* Math.cos of a whole number of degrees (a multiple of 5), in 1/1000.
CosTable ==
  <<1000, 996, 985, 966, 940, 906, 866, 819, 766, 707,
    643, 574, 500, 423, 342, 259, 174, 87, 0>>
CosMilli(deg) ==
  LET d == normalizeAngle(deg)
      r == IF d <= 90 THEN d ELSE IF d <= 180 THEN 180 - d
           ELSE IF d <= 270 THEN d - 180 ELSE 360 - d
      c == CosTable[(r \div 5) + 1]
  IN IF d <= 90 \/ d >= 270 THEN c ELSE 0 - c

\* The component without Math.max(0, ...): an offshore wind comes out negative.
calculateOnshoreComponentSigned(windDirDeg, windSpeedKt, shorelineBearingTowardShore) ==
  LET angleDiff == normalizeAngle(windDirDeg - shorelineBearingTowardShore)
  IN windSpeedKt * CosMilli(angleDiff)
\* In 1/1000 kt.
calculateOnshoreComponent(windDirDeg, windSpeedKt, shorelineBearingTowardShore) ==
  LET angleDiff == normalizeAngle(windDirDeg - shorelineBearingTowardShore)
  IN Max2(0, windSpeedKt * CosMilli(angleDiff))

\* The loop with its bound off by one: for (i = 1; i < hours; i++).
generateHourlyTimestampsFromOne(startDate, hours) ==
  [i \in 1..(hours - 1) |-> startDate + i * MinutesPerHour]
\* for (i = 0; i < hours; i++) push(startDate + i hours)
generateHourlyTimestamps(startDate, hours) ==
  [i \in 1..hours |-> startDate + (i - 1) * MinutesPerHour]

\* ------------------------------------------------------------ site registry
SiteIds == {"stoney-beach", "devils-foot", "great-harbor", "nonamesset-side"}

\* shorelineBearingTowardShore in degrees, exposure in 1/100.
SITES ==
  [s \in SiteIds |->
     CASE s = "stoney-beach"    -> [id |-> s, shorelineBearingTowardShore |-> 315, exposure |-> 35]
       [] s = "devils-foot"     -> [id |-> s, shorelineBearingTowardShore |-> 90, exposure |-> 70]
       [] s = "great-harbor"    -> [id |-> s, shorelineBearingTowardShore |-> 45, exposure |-> 25]
       [] s = "nonamesset-side" -> [id |-> s, shorelineBearingTowardShore |-> 140, exposure |-> 60]]

WeightKeys == {"wWind", "wOnshore", "wTideFlow", "wRain", "wSwell"}

\* let weights = { wWind: 2.0, wOnshore: 2.5, wTideFlow: 1.5, wRain: 1.0, wSwell: 1.0 }
DefaultWeights ==
  [wWind |-> 20, wOnshore |-> 25, wTideFlow |-> 15, wRain |-> 10, wSwell |-> 10]

\* -------------------------------------------------------- penalty functions
\* Math.pow(x, 1.3) in 1/1000, for the whole numbers of knots the model uses.
Pow13Table ==
  (1 :> 1000) @@ (3 :> 4171) @@ (5 :> 8103) @@ (10 :> 19953) @@ (15 :> 33800)
  @@ (25 :> 65663) @@ (45 :> 140986)

fWindSpeed(speedKnots) ==
  IF speedKnots <= 5 THEN 0 ELSE Pow13Table[speedKnots - 5]

fOnshore(onshoreKnots) == Max2(0, onshoreKnots)

fTideFlow(flowFtPerHr) == Abs(flowFtPerHr) * 2

fRain(mm72h) == clamp(mm72h \div 3, 0, 20000)

\* TpSeconds 0 stands for an absent (or zero) period: both are falsy.
fSwell(HsMeters, TpSeconds) ==
  LET basePenalty == HsMeters * 10
      periodMultiplier == IF TpSeconds # 0 /\ TpSeconds < 7 THEN 12 ELSE 10
  IN (basePenalty * periodMultiplier) \div 10

\* ------------------------------------------------------------ scoring engine
\* Components that start from one penalty point each instead of 0.
BaselineComponents ==
  [wind |-> 1000, onshore |-> 1000, tideFlow |-> 1000, rain |-> 1000, swell |-> 1000]
\* const components = { wind: 0, onshore: 0, tideFlow: 0, rain: 0, swell: 0 }
ZeroComponents == [wind |-> 0, onshore |-> 0, tideFlow |-> 0, rain |-> 0, swell |-> 0]

ScoreOf(totalPenalty) == clamp(ScoreMax - totalPenalty, 0, ScoreMax)

\* w is the module-level variable weights the function reads.
calculateClarityScore(site, windData, tideFlow, rain72h, waveData, w) ==
  LET components ==
        [ZeroComponents EXCEPT
           !.wind = IF windData.null THEN @ ELSE fWindSpeed(windData.wind_speed_kt),
           !.onshore = IF windData.null THEN @
                       ELSE fOnshore(calculateOnshoreComponent(
                              windData.wind_dir_deg, windData.wind_speed_kt,
                              site.shorelineBearingTowardShore)),
           !.tideFlow = fTideFlow(tideFlow),
           !.rain = fRain(rain72h),
           !.swell = IF waveData.null THEN @
                     ELSE (fSwell(waveData.Hs_m, waveData.Tp_s) * site.exposure) \div 100]
      totalPenalty ==
        w.wWind * components.wind + w.wOnshore * components.onshore
        + w.wTideFlow * components.tideFlow + w.wRain * components.rain
        + w.wSwell * components.swell
  IN [score |-> ScoreOf(totalPenalty), components |-> components]

\* ------------------------------------------------------------------- state
VARIABLES
  now,               \* Date.now()
  env,               \* process.env: the configured keys and admin secret
  ndbc,              \* what each NDBC endpoint answers at present
  weights,           \* let weights
  cache,             \* let cache
  stormglassCache,   \* let stormglassCache
  openWeatherCache,  \* let openWeatherCache
  procs,             \* the asynchronous operations in flight, by slot
  reply              \* what the last step sent: an HTTP response, or the
                     \* completion line of a scheduled refresh

vars == <<now, env, ndbc, weights, cache, stormglassCache, openWeatherCache,
          procs, reply>>

Procs == 1..MaxProcs

NoReply == [op |-> "none"]
\* console.log(`Data refresh completed in ${duration}ms ...`) of a refresh
\* nobody awaits, duration in minutes.
RefreshLogged(duration) == [op |-> "refreshLog", duration |-> duration]

NoCall == [pc |-> "idle", ret |-> Null, how |-> "none"]
\* startTime is the local of refreshAllData, null outside a refresh.
IdleProc == [kind |-> "idle", startTime |-> NullTime, wave |-> NoCall, rain |-> NoCall]

\* ------------------------------------------------------------ wave gate
\* A gate whose counter is never reset.
resetDailyRequestCountNever(sc, t) == sc
resetDailyRequestCountIfNeeded(sc, t) ==
  IF sc.lastResetDate # DayOf(t)
  THEN [sc EXCEPT !.requestsToday = 0, !.lastResetDate = DayOf(t)]
  ELSE sc

\* The age compared with the cache duration in hours taken as minutes.
isStormglassCacheValidUnitSlip(sc, t) ==
  IF sc.data.null \/ sc.lastFetchedAt = NullTime
  THEN FALSE
  ELSE (t - sc.lastFetchedAt) < STORMGLASS_CACHE_HOURS
isStormglassCacheValid(sc, t) ==
  IF sc.data.null \/ sc.lastFetchedAt = NullTime
  THEN FALSE
  ELSE (t - sc.lastFetchedAt) < STORMGLASS_CACHE_HOURS * MinutesPerHour

\* The comparison with <= for <.
canFetchStormglassDataInclusive(sc, t) ==
  resetDailyRequestCountIfNeeded(sc, t).requestsToday <= STORMGLASS_MAX_DAILY_REQUESTS
\* The comparison of canFetchStormglassData, on the cache its call of
\* resetDailyRequestCountIfNeeded leaves.
canFetchStormglassData(sc, t) ==
  resetDailyRequestCountIfNeeded(sc, t).requestsToday < STORMGLASS_MAX_DAILY_REQUESTS

\* A gate that answers unavailable when it is refused a request.
fetchWaveDataSyncThrottledNull(sc, t, key) ==
  IF ~key
  THEN [sc |-> sc, call |-> [pc |-> "done", ret |-> Null, how |-> "nokey"]]
  ELSE IF isStormglassCacheValid(sc, t)
  THEN [sc |-> sc, call |-> [pc |-> "done", ret |-> sc.data, how |-> "cached"]]
  ELSE IF ~canFetchStormglassData(sc, t)
  THEN [sc |-> resetDailyRequestCountIfNeeded(sc, t),
        call |-> [pc |-> "done", ret |-> Null, how |-> "throttled"]]
  ELSE [sc |-> resetDailyRequestCountIfNeeded(sc, t),
        call |-> [pc |-> "fetching", ret |-> Null, how |-> "live"]]
\* fetchWaveData up to its first await: the cache it leaves and either the
\* value it returns at once or the request it issues.
fetchWaveDataSync(sc, t, key) ==
  IF ~key
  THEN [sc |-> sc, call |-> [pc |-> "done", ret |-> Null, how |-> "nokey"]]
  ELSE IF isStormglassCacheValid(sc, t)
  THEN [sc |-> sc, call |-> [pc |-> "done", ret |-> sc.data, how |-> "cached"]]
  ELSE IF ~canFetchStormglassData(sc, t)
  THEN [sc |-> resetDailyRequestCountIfNeeded(sc, t),
        call |-> [pc |-> "done",
                  ret |-> resetDailyRequestCountIfNeeded(sc, t).data,
                  how |-> "throttled"]]
  ELSE [sc |-> resetDailyRequestCountIfNeeded(sc, t),
        call |-> [pc |-> "fetching", ret |-> Null, how |-> "live"]]

\* What fetch() can do with the Stormglass request.
FetchOutcomes == {"transport", "http", "ok"}

\* stormglassCache.requestsToday++ sits after `await fetch`: a rejected
\* fetch skips it, a response of any status reaches it.
waveCounterAfter(sc, outcome) ==
  IF outcome = "transport" THEN sc
  ELSE [sc EXCEPT !.requestsToday = @ + 1]

\* A catch block that lets the error through to the caller.
waveFallbackRethrow(sc) == [null |-> FALSE, raised |-> TRUE]
\* A catch block that returns null whatever is cached.
waveFallbackNull(sc) == Null
\* The catch block: the cached value if there is one, else null.
waveFallback(sc) == IF ~sc.data.null THEN sc.data ELSE Null

\* hours[0] of a well-formed body: waveHeight.sg in 1/1000 m and wavePeriod.sg
\* in s, 0 for an absent one.
WavePayloads ==
  { [waveHeightSg |-> 500, wavePeriodSg |-> 5],
    [waveHeightSg |-> 12000, wavePeriodSg |-> 0] }
\* A body response.json() rejects, or one without a non-empty hours array.
MalformedBody == [malformed |-> TRUE]
WaveBodies == {MalformedBody} \cup WavePayloads

\* { Hs_m: latest.waveHeight?.sg || 0, Tp_s: latest.wavePeriod?.sg }
parseWave(latest) ==
  [null |-> FALSE, Hs_m |-> latest.waveHeightSg, Tp_s |-> latest.wavePeriodSg]

\* A store that leaves lastFetchedAt as it was.
storeWaveNoStamp(sc, waveData, t) == [sc EXCEPT !.data = waveData]
\* stormglassCache.data = waveData; stormglassCache.lastFetchedAt = now
storeWave(sc, waveData, t) ==
  [sc EXCEPT !.data = waveData, !.lastFetchedAt = t]

\* ------------------------------------------------------------ rain gate
resetMinuteRequestCountIfNeeded(oc, t) ==
  IF oc.lastResetMinute # MinuteOf(t)
  THEN [oc EXCEPT !.requestsThisMinute = 0, !.lastResetMinute = MinuteOf(t)]
  ELSE oc

canFetchOpenWeatherData(oc, t) ==
  resetMinuteRequestCountIfNeeded(oc, t).requestsThisMinute
    < OPENWEATHER_MAX_REQUESTS_PER_MINUTE

\* An adapter that goes to its gate without looking at the key.
fetchPrecipitationDataSyncKeyless(oc, t, key) ==
  IF ~canFetchOpenWeatherData(oc, t)
  THEN [oc |-> resetMinuteRequestCountIfNeeded(oc, t),
        call |-> [pc |-> "done", ret |-> Null, how |-> "throttled"]]
  ELSE [oc |-> resetMinuteRequestCountIfNeeded(oc, t),
        call |-> [pc |-> "fetching", ret |-> Null, how |-> "live"]]
\* fetchPrecipitationData up to its first await.
fetchPrecipitationDataSync(oc, t, key) ==
  IF ~key
  THEN [oc |-> oc, call |-> [pc |-> "done", ret |-> Null, how |-> "nokey"]]
  ELSE IF ~canFetchOpenWeatherData(oc, t)
  THEN [oc |-> resetMinuteRequestCountIfNeeded(oc, t),
        call |-> [pc |-> "done", ret |-> Null, how |-> "throttled"]]
  ELSE [oc |-> resetMinuteRequestCountIfNeeded(oc, t),
        call |-> [pc |-> "fetching", ret |-> Null, how |-> "live"]]

rainCounterAfter(oc, outcome) ==
  IF outcome = "transport" THEN oc
  ELSE [oc EXCEPT !.requestsThisMinute = @ + 1]

\* data.rain and data.snow of a well-formed body, in 1/1000 mm, 0 when absent.
\* windowed_mm, which nothing reads, is left out of the record.
RainPayloads == { [rain |-> 0, snow |-> 0], [rain |-> 30000, snow |-> 60000] }
RainBodies == {MalformedBody} \cup RainPayloads

parsePrecip(data) == [null |-> FALSE, last72h_mm |-> data.rain + data.snow]

\* --------------------------------------------------- tide and wind adapters
HourFloor(t) == (t \div MinutesPerHour) * MinutesPerHour

\* What fetchWaterLevels returns at instant t: [] when the request fails, else
\* the hourly series CO-OPS has around t (level_ft in 1/1000 ft).
TideLevels == <<1000, 1600, 1900, 1900>>
TideSeries(t) ==
  [i \in 1..Len(TideLevels) |->
     [t |-> HourFloor(t) + (i - 2) * MinutesPerHour, level_ft |-> TideLevels[i]]]

\* How a request of the tide or wind adapter can end: fetch() rejects, the
\* status is not OK, the body is not what the parser needs, or all is well.
AdapterOutcomes == FetchOutcomes \cup {"malformed"}

\* fetchWaterLevels at instant t: every failure is thrown inside its try
\* block, whose catch returns [].
fetchWaterLevels(outcome, t) ==
  IF outcome = "ok" THEN TideSeries(t) ELSE << >>

TideOutcomes(t) == {fetchWaterLevels(outcome, t) : outcome \in AdapterOutcomes}

\* The series CO-OPS has around t on a falling tide.
EbbLevels == <<1900, 1300, 1300, 900>>
EbbSeries(t) ==
  [i \in 1..Len(EbbLevels) |->
     [t |-> HourFloor(t) + (i - 2) * MinutesPerHour, level_ft |-> EbbLevels[i]]]

\* The latest NDBC observation (direction in degrees, speed in knots; its t
\* and gust_kt, which nothing reads, left out).
WindObservation == [null |-> FALSE, wind_dir_deg |-> 135, wind_speed_kt |-> 8]

\* fetchWindData: every failure is thrown inside its try block, whose catch
\* returns null.
fetchWindData(outcome) ==
  IF outcome = "ok" THEN WindObservation ELSE Null

WindOutcomes == {fetchWindData(outcome) : outcome \in AdapterOutcomes}

\* fetchWindData endpoint by endpoint. urls has two candidates, realtime2 and
\* latest_obs. An endpoint's answer: fetch() rejects ("transport"), the status
\* is not OK ("http"), the status is OK and the text lacks the lines, the
\* columns or the numbers ("malformed"), or it is OK and well-formed ("ok").
NdbcEndpoints == 1..2
EndpointAnswers == [NdbcEndpoints -> AdapterOutcomes]

\* The observation a well-formed text of endpoint i gives.
NdbcReading(i) ==
  [null |-> FALSE, wind_dir_deg |-> 135, wind_speed_kt |-> IF i = 1 THEN 8 ELSE 10]

\* The loop leaves in response the first endpoint's response that is OK (it
\* breaks there); with none, what it holds is not OK or undefined and the
\* function throws into its catch. The text of that one response is parsed,
\* and a text that fails a check throws into the same catch: null.
fetchWindDataFrom(answers) ==
  LET responseOk == {i \in NdbcEndpoints : answers[i] \in {"malformed", "ok"}}
  IN IF responseOk = {} THEN Null
     ELSE LET i == CHOOSE j \in responseOk : \A k \in responseOk : j <= k
          IN IF answers[i] = "ok" THEN NdbcReading(i) ELSE Null

\* ------------------------------------------------------- forecast builder
EmptyMap == [x \in {} |-> 0]

computeTideFlow(waterLevels) ==
  LET steps == {i \in 2..Len(waterLevels) : waterLevels[i].t - waterLevels[i - 1].t > 0}
      last(k) == CHOOSE i \in steps :
                   /\ waterLevels[i].t = k
                   /\ \A j \in steps : waterLevels[j].t = k => j <= i
  IN [k \in {waterLevels[i].t : i \in steps} |->
        (Abs(waterLevels[last(k)].level_ft - waterLevels[last(k) - 1].level_ft)
           * MinutesPerHour)
        \div (waterLevels[last(k)].t - waterLevels[last(k) - 1].t)]

\* let cache = { ..., scoreBySiteByTime: {} }
NoTable == [built |-> FALSE]

\* A run that skips the reset and writes onto the table it finds.
computeForecastTableNoReset(t, c, w, hours) ==
  [built |-> TRUE, now |-> t, hours |-> hours,
   tideFlowPerTimestamp |-> c.tideFlowPerTimestamp,
   windLatest |-> c.windLatest,
   precipSummary72h |-> c.precipSummary72h,
   wavesLatest |-> c.wavesLatest,
   weights |-> w,
   onto |-> c.scoreBySiteByTime]
\* computeForecastTable(hours) run at instant t on cache c with weights w.
\* cache.scoreBySiteByTime is held as what that run read, and the table it
\* wrote its entries onto: the empty one, after cache.scoreBySiteByTime = {}.
\* scoreBySiteByTime below is the table the run left, entry by entry.
computeForecastTable(t, c, w, hours) ==
  [built |-> TRUE, now |-> t, hours |-> hours,
   tideFlowPerTimestamp |-> c.tideFlowPerTimestamp,
   windLatest |-> c.windLatest,
   precipSummary72h |-> c.precipSummary72h,
   wavesLatest |-> c.wavesLatest,
   weights |-> w,
   onto |-> NoTable]

\* A run that counts the rain for the current hour only.
ForecastPointOfRainNowOnly(b, site, timestamp) ==
  LET tideFlow == IF timestamp \in DOMAIN b.tideFlowPerTimestamp
                  THEN b.tideFlowPerTimestamp[timestamp] ELSE 0
      rain72h == IF b.precipSummary72h.null \/ timestamp # b.now THEN 0
                 ELSE b.precipSummary72h.last72h_mm
      result == calculateClarityScore(site, b.windLatest, tideFlow, rain72h,
                                      b.wavesLatest, b.weights)
  IN [t |-> timestamp, score |-> result.score, components |-> result.components]
\* The ForecastPoint the run b wrote for a site and a timestamp.
ForecastPointOf(b, site, timestamp) ==
  LET tideFlow == IF timestamp \in DOMAIN b.tideFlowPerTimestamp
                  THEN b.tideFlowPerTimestamp[timestamp] ELSE 0
      rain72h == IF b.precipSummary72h.null THEN 0
                 ELSE b.precipSummary72h.last72h_mm
      result == calculateClarityScore(site, b.windLatest, tideFlow, rain72h,
                                      b.wavesLatest, b.weights)
  IN [t |-> timestamp, score |-> result.score, components |-> result.components]

\* The keys the loop over generateHourlyTimestamps(now, hours) assigns.
TimestampsOf(b) ==
  LET timestamps == generateHourlyTimestamps(b.now, b.hours)
  IN {timestamps[i] : i \in DOMAIN timestamps}

RECURSIVE scoreBySiteByTime(_)
\* cache.scoreBySiteByTime as a mapping site id -> timestamp -> ForecastPoint:
\* the entries the run b assigned, and under the other keys what the table
\* it wrote onto held.
scoreBySiteByTime(b) ==
  IF ~b.built THEN EmptyMap
  ELSE IF ~b.onto.built
  THEN [s \in SiteIds |->
          [timestamp \in TimestampsOf(b) |-> ForecastPointOf(b, SITES[s], timestamp)]]
  ELSE LET under == scoreBySiteByTime(b.onto)
       IN [s \in SiteIds |->
             [timestamp \in TimestampsOf(b) \cup DOMAIN under[s] |->
                IF timestamp \in TimestampsOf(b)
                THEN ForecastPointOf(b, SITES[s], timestamp)
                ELSE under[s][timestamp]]]

\* ------------------------------------------------------------------- Init
EnvChoices ==
  [sgKey : BOOLEAN, owKey : BOOLEAN, adminSecret : {"", "s3cret"}]

\* The state module initialisation leaves, for a deployment env among envs
\* started at an instant among starts.
InitIn(envs, starts) ==
  /\ now \in starts
  /\ env \in envs
  /\ ndbc = [i \in NdbcEndpoints |-> "ok"]
  /\ weights = DefaultWeights
  /\ cache = [waterLevelHourly |-> << >>,
              tideFlowPerTimestamp |-> EmptyMap,
              windLatest |-> Null,
              precipSummary72h |-> Null,
              wavesLatest |-> Null,
              scoreBySiteByTime |-> NoTable,
              lastRefreshedAt |-> now,
              degraded |-> FALSE,
              sources |-> [coops |-> FALSE, ndbc |-> FALSE,
                           openweather |-> FALSE, stormglass |-> FALSE]]
  /\ stormglassCache = [data |-> Null, lastFetchedAt |-> NullTime,
                        requestsToday |-> 0, lastResetDate |-> DayOf(now)]
  /\ openWeatherCache = [requestsThisMinute |-> 0,
                         lastResetMinute |-> MinuteOf(now)]
  /\ procs = [p \in Procs |-> IdleProc]
  /\ reply = NoReply

\* ---------------------------------------------------------------- actions
\* The x-admin-secret header of a request; "" is a request without one.
Headers == {"", "wrong", "s3cret"}

\* The check without its first half, adminSecret === ADMIN_SECRET alone.
AuthorizedWhenEqual(hdr, secret) == hdr = secret
\* !(!adminSecret || adminSecret !== ADMIN_SECRET)
Authorized(hdr, secret) == hdr # "" /\ hdr = secret

Unauthorized(op) == [op |-> op, status |-> 401]

\* The slot a newly started operation takes: the lowest idle one of P.
Slot(P, p) ==
  /\ p \in P
  /\ procs[p].kind = "idle"
  /\ \A q \in P : q < p => procs[q].kind # "idle"

\* An NDBC endpoint goes down, comes back, or serves another text.
NdbcChanges ==
  \E answers \in EndpointAnswers :
    /\ answers # ndbc
    /\ ndbc' = answers
    /\ reply' = NoReply
    /\ UNCHANGED <<now, env, weights, cache, stormglassCache, openWeatherCache, procs>>

\* Time passes.
Tick(maxNow) ==
  /\ now + TickMinutes <= maxNow
  /\ now' = now + TickMinutes
  /\ reply' = NoReply
  /\ UNCHANGED <<env, ndbc, weights, cache, stormglassCache, openWeatherCache, procs>>

\* refreshAllData up to its await: the four fetchers run to their first await
\* (the tide and wind fetchers touch no state before they return).
StartRefresh(p, kind) ==
  LET w == fetchWaveDataSync(stormglassCache, now, env.sgKey)
      r == fetchPrecipitationDataSync(openWeatherCache, now, env.owKey)
  IN /\ stormglassCache' = w.sc
     /\ openWeatherCache' = r.oc
     /\ procs' = [procs EXCEPT ![p] = [kind |-> kind, startTime |-> now,
                                       wave |-> w.call, rain |-> r.call]]

\* startRefreshScheduler: the refresh at startup and the one of each interval
\* (REFRESH_MINUTES is configured, so a tick can come at any instant).
TimerRefresh(P) ==
  \E p \in P :
    /\ Slot(P, p)
    /\ StartRefresh(p, "timer")
    /\ reply' = NoReply
    /\ UNCHANGED <<now, env, ndbc, weights, cache>>

\* POST /admin/refresh with the header hdr, up to `await refreshAllData()`.
AdminRefreshAs(hdr, P) ==
    IF ~Authorized(hdr, env.adminSecret)
    THEN /\ reply' = Unauthorized("adminRefresh")
         /\ UNCHANGED <<now, env, ndbc, weights, cache, stormglassCache, openWeatherCache, procs>>
    ELSE \E p \in P :
           /\ Slot(P, p)
           /\ StartRefresh(p, "admin")
           /\ reply' = NoReply
           /\ UNCHANGED <<now, env, ndbc, weights, cache>>

\* POST /admin/refresh
AdminRefresh(P) == \E hdr \in Headers : AdminRefreshAs(hdr, P)

\* The continuation of a fetchWaveData that has returned: the handler of a
\* forced refresh answers, refreshAllData keeps the value for its join.
\* (how is the path the value came by; the response body does not carry it.)
FinishWave(p, call, sc) ==
  IF procs[p].kind = "force"
  THEN /\ procs' = [procs EXCEPT ![p] = IdleProc]
       /\ reply' = [op |-> "forceWave", status |-> 200, data |-> call.ret,
                    how |-> call.how, requestsToday |-> sc.requestsToday]
  ELSE /\ procs' = [procs EXCEPT ![p].wave = call]
       /\ reply' = NoReply

\* POST /admin/stormglass/refresh with the header hdr, up to
\* `await fetchWaveData()`.
ForceWaveRefreshAs(hdr, P) ==
    IF ~Authorized(hdr, env.adminSecret)
    THEN /\ reply' = Unauthorized("forceWave")
         /\ UNCHANGED <<now, env, ndbc, weights, cache, stormglassCache, openWeatherCache, procs>>
    ELSE IF ~canFetchStormglassData(stormglassCache, now)
    THEN /\ stormglassCache' = resetDailyRequestCountIfNeeded(stormglassCache, now)
         /\ reply' = [op |-> "forceWave", status |-> 429,
                      requestsToday |-> stormglassCache'.requestsToday]
         /\ UNCHANGED <<now, env, ndbc, weights, cache, openWeatherCache, procs>>
    ELSE \E p \in P :
           LET invalidated ==
                 [resetDailyRequestCountIfNeeded(stormglassCache, now)
                    EXCEPT !.lastFetchedAt = NullTime]
               w == fetchWaveDataSync(invalidated, now, env.sgKey)
           IN /\ Slot(P, p)
              /\ stormglassCache' = w.sc
              /\ IF w.call.pc = "done"
                 THEN /\ reply' = [op |-> "forceWave", status |-> 200,
                                   data |-> w.call.ret, how |-> w.call.how,
                                   requestsToday |-> w.sc.requestsToday]
                      /\ UNCHANGED procs
                 ELSE /\ procs' = [procs EXCEPT ![p] =
                                     [kind |-> "force", startTime |-> NullTime,
                                      wave |-> w.call, rain |-> NoCall]]
                      /\ reply' = NoReply
              /\ UNCHANGED <<now, env, ndbc, weights, cache, openWeatherCache>>

\* POST /admin/stormglass/refresh
ForceWaveRefresh(P) == \E hdr \in Headers : ForceWaveRefreshAs(hdr, P)

\* `await fetch(url)` of fetchWaveData settles.
WaveResponse ==
  \E p \in Procs, outcome \in FetchOutcomes :
    /\ procs[p].wave.pc = "fetching"
    /\ stormglassCache' = waveCounterAfter(stormglassCache, outcome)
    /\ IF outcome = "ok"
       THEN /\ procs' = [procs EXCEPT ![p].wave.pc = "parsing"]
            /\ reply' = NoReply
       ELSE FinishWave(p, [pc |-> "done", ret |-> waveFallback(stormglassCache),
                           how |-> "error"], stormglassCache')
    /\ UNCHANGED <<now, env, ndbc, weights, cache, openWeatherCache>>

\* `await response.json()` of fetchWaveData settles.
WaveBody ==
  \E p \in Procs, body \in WaveBodies :
    /\ procs[p].wave.pc = "parsing"
    /\ IF body = MalformedBody
       THEN /\ UNCHANGED stormglassCache
            /\ FinishWave(p, [pc |-> "done", ret |-> waveFallback(stormglassCache),
                              how |-> "error"], stormglassCache)
       ELSE /\ stormglassCache' = storeWave(stormglassCache, parseWave(body), now)
            /\ FinishWave(p, [pc |-> "done", ret |-> parseWave(body),
                              how |-> "fetched"], stormglassCache')
    /\ UNCHANGED <<now, env, ndbc, weights, cache, openWeatherCache>>

\* `await fetch(url)` of fetchPrecipitationData settles.
RainResponse ==
  \E p \in Procs, outcome \in FetchOutcomes :
    /\ procs[p].rain.pc = "fetching"
    /\ openWeatherCache' = rainCounterAfter(openWeatherCache, outcome)
    /\ procs' = [procs EXCEPT ![p].rain =
                   IF outcome = "ok" THEN [@ EXCEPT !.pc = "parsing"]
                   ELSE [pc |-> "done", ret |-> Null, how |-> "error"]]
    /\ reply' = NoReply
    /\ UNCHANGED <<now, env, ndbc, weights, cache, stormglassCache>>

\* `await response.json()` of fetchPrecipitationData settles.
RainBody ==
  \E p \in Procs, body \in RainBodies :
    /\ procs[p].rain.pc = "parsing"
    /\ procs' = [procs EXCEPT ![p].rain =
                   IF body = MalformedBody
                   THEN [pc |-> "done", ret |-> Null, how |-> "error"]
                   ELSE [pc |-> "done", ret |-> parsePrecip(body), how |-> "fetched"]]
    /\ reply' = NoReply
    /\ UNCHANGED <<now, env, ndbc, weights, cache, stormglassCache, openWeatherCache>>

\* A refresh that stores what it fetched and leaves the forecast table to a
\* later rebuild.
refreshAllDataJoinTableLater(c, t, w, waterLevels, windData, precipData, waveData) ==
  [c EXCEPT !.waterLevelHourly = waterLevels,
            !.windLatest = windData,
            !.precipSummary72h = precipData,
            !.wavesLatest = waveData,
            !.tideFlowPerTimestamp = computeTideFlow(waterLevels),
            !.sources = [coops |-> Len(waterLevels) > 0,
                         ndbc |-> ~windData.null,
                         openweather |-> ~precipData.null,
                         stormglass |-> ~waveData.null],
            !.lastRefreshedAt = t,
            !.degraded = Len(waterLevels) = 0 \/ windData.null]
\* A refresh that counts every unavailable source as critical.
refreshAllDataJoinAnySource(c, t, w, waterLevels, windData, precipData, waveData) ==
  LET c1 == [c EXCEPT !.waterLevelHourly = waterLevels,
                      !.windLatest = windData,
                      !.precipSummary72h = precipData,
                      !.wavesLatest = waveData,
                      !.tideFlowPerTimestamp = computeTideFlow(waterLevels),
                      !.sources = [coops |-> Len(waterLevels) > 0,
                                   ndbc |-> ~windData.null,
                                   openweather |-> ~precipData.null,
                                   stormglass |-> ~waveData.null]]
      degraded == ~c1.sources.coops \/ ~c1.sources.ndbc
                  \/ ~c1.sources.openweather \/ ~c1.sources.stormglass
  IN [c1 EXCEPT !.scoreBySiteByTime = computeForecastTable(t, c1, w, MAX_FORECAST_HOURS),
                !.lastRefreshedAt = t,
                !.degraded = degraded]
\* A refresh that adds the new tide-flow entries to the series it finds.
refreshAllDataJoinKeepsTideFlow(c, t, w, waterLevels, windData, precipData, waveData) ==
  LET flow == computeTideFlow(waterLevels)
      c1 == [c EXCEPT !.waterLevelHourly = waterLevels,
                      !.windLatest = windData,
                      !.precipSummary72h = precipData,
                      !.wavesLatest = waveData,
                      !.tideFlowPerTimestamp =
                         [k \in DOMAIN flow \cup DOMAIN @ |->
                            IF k \in DOMAIN flow THEN flow[k] ELSE @[k]],
                      !.sources = [coops |-> Len(waterLevels) > 0,
                                   ndbc |-> ~windData.null,
                                   openweather |-> ~precipData.null,
                                   stormglass |-> ~waveData.null]]
      degraded == ~c1.sources.coops \/ ~c1.sources.ndbc
  IN [c1 EXCEPT !.scoreBySiteByTime = computeForecastTable(t, c1, w, MAX_FORECAST_HOURS),
                !.lastRefreshedAt = t,
                !.degraded = degraded]
\* refreshAllData after `await Promise.all(...)`: the cache it leaves when the
\* four fetchers returned these values at instant t, with weights w.
refreshAllDataJoin(c, t, w, waterLevels, windData, precipData, waveData) ==
  LET c1 == [c EXCEPT !.waterLevelHourly = waterLevels,
                      !.windLatest = windData,
                      !.precipSummary72h = precipData,
                      !.wavesLatest = waveData,
                      !.tideFlowPerTimestamp = computeTideFlow(waterLevels),
                      !.sources = [coops |-> Len(waterLevels) > 0,
                                   ndbc |-> ~windData.null,
                                   openweather |-> ~precipData.null,
                                   stormglass |-> ~waveData.null]]
      degraded == ~c1.sources.coops \/ ~c1.sources.ndbc
  IN [c1 EXCEPT !.scoreBySiteByTime = computeForecastTable(t, c1, w, MAX_FORECAST_HOURS),
                !.lastRefreshedAt = t,
                !.degraded = degraded]

\* The four fetchers of a refresh have settled (the tide and wind fetchers
\* with one of the answers tides and winds) and refreshAllData runs to its end.
RefreshJoin(tides, winds) ==
  \E p \in Procs :
    /\ procs[p].kind \in {"timer", "admin"}
    /\ procs[p].wave.pc = "done"
    /\ procs[p].rain.pc = "done"
    /\ \E waterLevels \in tides, windData \in winds :
         cache' = refreshAllDataJoin(cache, now, weights, waterLevels, windData,
                                     procs[p].rain.ret, procs[p].wave.ret)
    /\ reply' = IF procs[p].kind = "admin"
                THEN [op |-> "adminRefresh", status |-> 200,
                      lastRefreshedAt |-> cache'.lastRefreshedAt,
                      degraded |-> cache'.degraded]
                ELSE RefreshLogged(now - procs[p].startTime)
    /\ procs' = [procs EXCEPT ![p] = IdleProc]
    /\ UNCHANGED <<now, env, ndbc, weights, stormglassCache, openWeatherCache>>

\* Bodies of POST /calibration: partial weights, one of them refused by
\* CalibrationRequestSchema (a negative weight).
CalibrationBodies ==
  { [wWind |-> 0, wSwell |-> 500],
    [wRain |-> 0 - 10] }

\* CalibrationRequestSchema.parse: every given weight is a number >= 0.
ValidCalibration(body) == \A k \in DOMAIN body : body[k] >= 0

\* The spread written the other way round, { ...validatedData, ...weights }:
\* the weights in force win over the update.
mergeWeightsSpreadReversed(w, validatedData) ==
  [k \in WeightKeys |-> IF k \in DOMAIN w THEN w[k] ELSE validatedData[k]]
\* { ...weights, ...validatedData }
mergeWeights(w, validatedData) ==
  [k \in WeightKeys |-> IF k \in DOMAIN validatedData THEN validatedData[k] ELSE w[k]]

\* POST /calibration with the header hdr and the body body.
CalibrationAs(hdr, body) ==
    /\ IF ~Authorized(hdr, env.adminSecret)
       THEN /\ reply' = Unauthorized("calibration")
            /\ UNCHANGED <<weights, cache>>
       ELSE IF ~ValidCalibration(body)
       THEN /\ reply' = [op |-> "calibration", status |-> 400]
            /\ UNCHANGED <<weights, cache>>
       ELSE /\ weights' = mergeWeights(weights, body)
            /\ cache' = [cache EXCEPT !.scoreBySiteByTime =
                           computeForecastTable(now, cache, weights', MAX_FORECAST_HOURS)]
            /\ reply' = [op |-> "calibration", status |-> 200, weights |-> weights']
    /\ UNCHANGED <<now, env, ndbc, stormglassCache, openWeatherCache, procs>>

\* POST /calibration, its body among bodies.
CalibrationOf(bodies) ==
  \E hdr \in Headers, body \in bodies : CalibrationAs(hdr, body)

\* POST /calibration
Calibration == CalibrationOf(CalibrationBodies)

\* GET /health
Health ==
  /\ stormglassCache' = resetDailyRequestCountIfNeeded(stormglassCache, now)
  /\ openWeatherCache' = resetMinuteRequestCountIfNeeded(openWeatherCache, now)
  /\ reply' = [op |-> "health", status |-> 200,
               lastRefreshedAt |-> cache.lastRefreshedAt,
               degraded |-> cache.degraded,
               sources |-> cache.sources,
               openweather |->
                 [enabled |-> env.owKey,
                  requestsThisMinute |-> openWeatherCache'.requestsThisMinute,
                  lastResetMinute |-> openWeatherCache'.lastResetMinute],
               stormglass |->
                 [enabled |-> env.sgKey,
                  requestsToday |-> stormglassCache'.requestsToday,
                  cacheValid |-> isStormglassCacheValid(stormglassCache', now),
                  lastFetchedAt |-> stormglassCache'.lastFetchedAt]]
  /\ UNCHANGED <<now, env, ndbc, weights, cache, procs>>

\* A GET /raw/waves that brings the snapshot's wave reading up to the gate's.
RawWavesAdoptsCached ==
  /\ reply' = [op |-> "rawWaves", status |-> 200,
               current |-> stormglassCache.data,
               cache |-> [data |-> stormglassCache.data,
                          lastFetchedAt |-> stormglassCache.lastFetchedAt,
                          requestsToday |-> stormglassCache.requestsToday,
                          cacheValid |-> isStormglassCacheValid(stormglassCache, now)]]
  /\ cache' = [cache EXCEPT !.wavesLatest = stormglassCache.data]
  /\ UNCHANGED <<now, env, ndbc, weights, stormglassCache, openWeatherCache, procs>>
\* GET /raw/waves
RawWaves ==
  /\ reply' = [op |-> "rawWaves", status |-> 200,
               current |-> cache.wavesLatest,
               cache |-> [data |-> stormglassCache.data,
                          lastFetchedAt |-> stormglassCache.lastFetchedAt,
                          requestsToday |-> stormglassCache.requestsToday,
                          cacheValid |-> isStormglassCacheValid(stormglassCache, now)]]
  /\ UNCHANGED <<now, env, ndbc, weights, cache, stormglassCache, openWeatherCache, procs>>

\* ------------------------------------------------------------ the ranker
\* Object.keys(siteData).sort(): ISO instants sort chronologically.
sortedKeys(siteData) ==
  LET S == DOMAIN siteData
      before == [k \in S |-> Cardinality({j \in S : j < k})]
  IN [i \in 1..Cardinality(S) |-> CHOOSE k \in S : before[k] = i - 1]

\* Array.prototype.slice(0, end) for end >= 0.
sliceTo(seq, end) == SubSeq(seq, 1, Min2(end, Len(seq)))

\* Math.round(avgScore * 10) / 10 of the mean of a window's scores, in 1/10
\* (scores are in 1/10000; Math.round rounds a half up).
roundedAvgScore(sum, count) == (2 * sum + count * 1000) \div (2 * count * 1000)

RECURSIVE sumScores(_, _, _, _)
\* scores.reduce((sum, score) => sum + score, 0) over timestamps[from..to]
sumScores(siteData, timestamps, from, to) ==
  IF from > to THEN 0
  ELSE siteData[timestamps[from]].score + sumScores(siteData, timestamps, from + 1, to)

\* The loop started at i = 1: the window at the first timestamp is left out.
windowsOfFromSecond(siteData, timestamps, windowSizeHours) ==
  [i \in 1..Max2(0, Len(timestamps) - windowSizeHours) |->
     [start |-> timestamps[i + 1],
      end |-> timestamps[i + windowSizeHours],
      avgScore |-> roundedAvgScore(
                     sumScores(siteData, timestamps, i + 1, i + windowSizeHours),
                     windowSizeHours)]]
\* The loop with the bound i < timestamps.length - windowSizeHours.
windowsOfStrictBound(siteData, timestamps, windowSizeHours) ==
  [i \in 1..Max2(0, Len(timestamps) - windowSizeHours) |->
     [start |-> timestamps[i],
      end |-> timestamps[i + windowSizeHours - 1],
      avgScore |-> roundedAvgScore(
                     sumScores(siteData, timestamps, i, i + windowSizeHours - 1),
                     windowSizeHours)]]
\* The loop of findBestWindows: one window per start index i with
\* i <= timestamps.length - windowSizeHours (0-based), in start order.
windowsOf(siteData, timestamps, windowSizeHours) ==
  [i \in 1..Max2(0, Len(timestamps) - windowSizeHours + 1) |->
     [start |-> timestamps[i],
      end |-> timestamps[i + windowSizeHours - 1],
      avgScore |-> roundedAvgScore(
                     sumScores(siteData, timestamps, i, i + windowSizeHours - 1),
                     windowSizeHours)]]

\* A descending sort that puts the later of two equal averages first.
sortWindowsLatestFirst(windows) ==
  LET n == Len(windows)
      posOf == [i \in 1..n |->
                  Cardinality({k \in 1..n : windows[k].avgScore > windows[i].avgScore})
                  + Cardinality({k \in (i + 1)..n :
                                   windows[k].avgScore = windows[i].avgScore})
                  + 1]
  IN [j \in 1..n |-> windows[CHOOSE i \in 1..n : posOf[i] = j]]
\* windows.sort((a, b) => b.avgScore - a.avgScore): descending, and stable
\* (Array.prototype.sort is stable), so equal averages keep their order.
\* posOf[i] is the place of windows[i] in the result.
sortWindows(windows) ==
  LET n == Len(windows)
      posOf == [i \in 1..n |->
                  Cardinality({k \in 1..n : windows[k].avgScore > windows[i].avgScore})
                  + Cardinality({k \in 1..(i - 1) :
                                   windows[k].avgScore = windows[i].avgScore})
                  + 1]
  IN [j \in 1..n |-> windows[CHOOSE i \in 1..n : posOf[i] = j]]

\* findBestWindows(siteId, hours, windowSizeHours) on the table tbl.
findBestWindows(tbl, siteId, hours, windowSizeHours) ==
  IF siteId \notin DOMAIN tbl THEN << >>
  ELSE LET siteData == tbl[siteId]
           timestamps == sliceTo(sortedKeys(siteData), hours)
       IN sortWindows(windowsOf(siteData, timestamps, windowSizeHours))

\* ---------------------------------------------------------------- queries
\* The hours parameter of a query: 0 stands for an absent or unparsable one.
QueryHours == {0, 3, 100}

\* Math.min(parseInt(req.query.hours) || dflt, MAX_FORECAST_HOURS)
parseHours(q, dflt) == Min2(IF q = 0 THEN dflt ELSE q, MAX_FORECAST_HOURS)

\* timestamps.map(t => siteData[t]).filter(Boolean)
pointsAt(siteData, timestamps) ==
  LET present(t) == t \in DOMAIN siteData
      found == SelectSeq(timestamps, present)
  IN [i \in 1..Len(found) |-> siteData[found[i]]]

\* The sites object GET /forecast sends when it runs at instant t for these
\* hours on the table b.
forecastSites(b, t, hours) ==
  LET T == scoreBySiteByTime(b)
      timestamps == generateHourlyTimestamps(t, hours)
  IN [s \in DOMAIN T |-> pointsAt(T[s], timestamps)]

\* GET /forecast. The reply is held as what the handler read; forecastSites
\* gives the body it sent.
Forecast ==
  \E q \in QueryHours :
    /\ reply' = [op |-> "forecast", status |-> 200, hours |-> parseHours(q, 48),
                 at |-> now, table |-> cache.scoreBySiteByTime]
    /\ UNCHANGED <<now, env, ndbc, weights, cache, stormglassCache, openWeatherCache, procs>>

\* for (const site of SITES)
SiteOrder == <<"stoney-beach", "devils-foot", "great-harbor", "nonamesset-side">>

\* The array GET /rankings sends for these hours on the table b: one entry
\* per site, sorted by the best window's avgScore (0 for a site without one).
rankingsOf(b, hours) ==
  LET T == scoreBySiteByTime(b)
      ranking(s) == LET bestWindows == findBestWindows(T, s, hours, 2)
                    IN [siteId |-> s,
                        bestWindow |-> IF Len(bestWindows) > 0 THEN bestWindows[1] ELSE Null,
                        avgScore |-> IF Len(bestWindows) > 0
                                     THEN bestWindows[1].avgScore ELSE 0,
                        top3 |-> sliceTo(bestWindows, 3)]
  IN sortWindows([i \in 1..Len(SiteOrder) |-> ranking(SiteOrder[i])])

\* GET /rankings. The reply is held as what the handler read; rankingsOf
\* gives the body it sent.
RankingsFor(asked) ==
  \E q \in asked :
    /\ reply' = [op |-> "rankings", status |-> 200, hours |-> parseHours(q, 24),
                 at |-> now, table |-> cache.scoreBySiteByTime]
    /\ UNCHANGED <<now, env, ndbc, weights, cache, stormglassCache, openWeatherCache, procs>>

Rankings == RankingsFor(QueryHours)

\* ---------------------------------------------------------- specifications
Init == InitIn(EnvChoices, {StartNow})

\* The whole server: every operation, up to MaxProcs of them in flight.
Next ==
  \/ Tick(MaxNow)
  \/ TimerRefresh(Procs)
  \/ AdminRefresh(Procs)
  \/ ForceWaveRefresh(Procs)
  \/ WaveResponse
  \/ WaveBody
  \/ RainResponse
  \/ RainBody
  \/ RefreshJoin(TideOutcomes(now), WindOutcomes)
  \/ Calibration
  \/ Forecast
  \/ Rankings
  \/ Health
  \/ RawWaves
  \/ NdbcChanges

Spec == Init /\ [][Next]_vars

\* The wave gate over a day boundary: one operation in flight at a time,
\* OpenWeather not configured, the tide and wind sources down.
GateEnvs == {e \in EnvChoices : ~e.owKey /\ e.adminSecret = "s3cret"}

InitGate == InitIn(GateEnvs, {StartNow})

NextGate ==
  \/ Tick(MaxNow)
  \/ TimerRefresh({1})
  \/ ForceWaveRefresh({1})
  \/ WaveResponse
  \/ WaveBody
  \/ RefreshJoin({<< >>}, {Null})
  \/ Health
  \/ RawWaves

SpecGate == InitGate /\ [][NextGate]_vars

\* Overlapping operations on the wave gate at one instant.
NextRace ==
  \/ TimerRefresh(Procs)
  \/ AdminRefresh(Procs)
  \/ ForceWaveRefresh(Procs)
  \/ WaveResponse
  \/ WaveBody
  \/ RefreshJoin(TideOutcomes(now), WindOutcomes)
  \/ Health

SpecRace == InitGate /\ [][NextRace]_vars

\* The forecast table: scheduled refreshes with every answer of the four
\* sources and weight updates, one operation in flight at a time, on a server
\* started on the hour or within it.
TableEnvs == {e \in EnvChoices : e.sgKey /\ e.owKey /\ e.adminSecret = "s3cret"}

InitTable == InitIn(TableEnvs, {StartNow, StartNow + TickMinutes})

NextTable ==
  \/ TimerRefresh({1})
  \/ WaveResponse
  \/ WaveBody
  \/ RainResponse
  \/ RainBody
  \/ RefreshJoin(TideOutcomes(now), WindOutcomes)
  \/ Calibration

SpecTable == InitTable /\ [][NextTable]_vars

\* Queries between refreshes over an hour boundary: no metered source
\* configured, one refresh in flight at a time.
QueryEnvs == {e \in EnvChoices : ~e.sgKey /\ ~e.owKey /\ e.adminSecret = "s3cret"}

QueryMaxNow == StartNow + 3 * TickMinutes

InitQuery == InitIn(QueryEnvs, {StartNow})

NextQuery ==
  \/ Tick(QueryMaxNow)
  \/ TimerRefresh({1})
  \/ RefreshJoin(TideOutcomes(now), WindOutcomes)
  \/ Calibration
  \/ Forecast
  \/ Rankings

SpecQuery == InitQuery /\ [][NextQuery]_vars

\* The ranker on every table a refresh or a weight update can build, on a
\* server started on the hour or within it.
InitRank == InitIn(QueryEnvs, {StartNow, StartNow + TickMinutes})

NextRank ==
  \/ TimerRefresh({1})
  \/ RefreshJoin(TideOutcomes(now), WindOutcomes)
  \/ Calibration
  \/ Forecast
  \/ Rankings

SpecRank == InitRank /\ [][NextRank]_vars

\* Every operation of the server at one instant, one asynchronous operation
\* in flight at a time, with every answer of the four sources.
OpsEnvs == {e \in EnvChoices : e.adminSecret = "s3cret"}

InitOps == InitIn(OpsEnvs, {StartNow})

NextOps ==
  \/ TimerRefresh({1})
  \/ AdminRefresh({1})
  \/ ForceWaveRefresh({1})
  \/ WaveResponse
  \/ WaveBody
  \/ RainResponse
  \/ RainBody
  \/ RefreshJoin(TideOutcomes(now), WindOutcomes)
  \/ Calibration
  \/ Forecast
  \/ Rankings
  \/ Health
  \/ RawWaves

SpecOps == InitOps /\ [][NextOps]_vars

\* Weight updates one after another, around a refresh with every answer of the
\* four sources: updates naming different weights, so that a weight set by one
\* update is there to be kept or lost by the next.
PartialUpdates == CalibrationBodies \cup {[wTideFlow |-> 30]}

InitWeights == InitIn(TableEnvs, {StartNow})

NextWeights ==
  \/ TimerRefresh({1})
  \/ WaveResponse
  \/ WaveBody
  \/ RainResponse
  \/ RainBody
  \/ RefreshJoin(TideOutcomes(now), WindOutcomes)
  \/ CalibrationOf(PartialUpdates)

SpecWeights == InitWeights /\ [][NextWeights]_vars

\* The scoring engine on every kind of reading: refreshes whose wind answer is
\* no reading, a calm, or a wind from or toward one of the shores, with the
\* wave source configured and the rain source not, and weight updates.
WindDirections == {90, 135, 270, 315}
WindSpeeds == {0, 8, 20}
WindReadings ==
  {Null} \cup {[null |-> FALSE, wind_dir_deg |-> d, wind_speed_kt |-> v] :
                 d \in WindDirections, v \in WindSpeeds}

ScoreEnvs == {e \in EnvChoices : e.sgKey /\ ~e.owKey /\ e.adminSecret = "s3cret"}

InitScore == InitIn(ScoreEnvs, {StartNow})

NextScore ==
  \/ TimerRefresh({1})
  \/ WaveResponse
  \/ WaveBody
  \/ RefreshJoin(TideOutcomes(now), WindReadings)
  \/ Calibration

SpecScore == InitScore /\ [][NextScore]_vars

\* Scheduled refreshes under the scheduling the code gives: once its four
\* fetchers have returned, refreshAllData runs to its end (the event loop
\* resumes a settled await). Nothing makes a fetch() settle: the requests are
\* sent without a timeout or an abort signal, so the steps WaveResponse,
\* WaveBody, RainResponse and RainBody, which are the network's, are not fair.
NextProgress ==
  \/ TimerRefresh({1})
  \/ WaveResponse
  \/ WaveBody
  \/ RainResponse
  \/ RainBody
  \/ RefreshJoin(TideOutcomes(now), WindOutcomes)

SpecProgress ==
  /\ InitWeights
  /\ [][NextProgress]_vars
  /\ WF_vars(RefreshJoin(TideOutcomes(now), WindOutcomes))

\* Refreshes whose wind answer is what fetchWindData makes of the answers the
\* two NDBC endpoints give when it runs, with weight updates.
NextWind ==
  \/ NdbcChanges
  \/ TimerRefresh({1})
  \/ RefreshJoin(TideOutcomes(now), {fetchWindDataFrom(ndbc)})
  \/ Calibration

SpecWind == InitQuery /\ [][NextWind]_vars

\* The administrative operations with every header, on a deployment with or
\* without an admin secret, around scheduled refreshes that fetch from both
\* metered sources.
AdminEnvs == {e \in EnvChoices : e.sgKey /\ e.owKey}

InitAdmin == InitIn(AdminEnvs, {StartNow})

NextAdmin ==
  \/ TimerRefresh({1})
  \/ AdminRefresh({1})
  \/ ForceWaveRefresh({1})
  \/ WaveResponse
  \/ WaveBody
  \/ RainResponse
  \/ RainBody
  \/ RefreshJoin(TideOutcomes(now), WindOutcomes)
  \/ Calibration

SpecAdmin == InitAdmin /\ [][NextAdmin]_vars

\* Refreshes and forced wave refreshes on a deployment that lacks the key of
\* one metered source or of both, with every answer of the other sources.
KeylessEnvs == {e \in EnvChoices : ~(e.sgKey /\ e.owKey) /\ e.adminSecret = "s3cret"}

InitKeyless == InitIn(KeylessEnvs, {StartNow})

NextKeyless ==
  \/ TimerRefresh({1})
  \/ AdminRefresh({1})
  \/ ForceWaveRefresh({1})
  \/ WaveResponse
  \/ WaveBody
  \/ RainResponse
  \/ RainBody
  \/ RefreshJoin(TideOutcomes(now), WindOutcomes)

SpecKeyless == InitKeyless /\ [][NextKeyless]_vars

\* Scheduled refreshes that overlap while time passes: the interval timer
\* fires again before the refresh it started earlier has ended (no key is
\* configured, so the wave and rain fetchers return at once).
NextOrder ==
  \/ Tick(QueryMaxNow)
  \/ TimerRefresh(Procs)
  \/ RefreshJoin(TideOutcomes(now), WindOutcomes)

SpecOrder == InitQuery /\ [][NextOrder]_vars

\* Refreshes over several hours on rising and falling tides, the tide source
\* failing at times (no key configured).
NextTides ==
  \/ Tick(QueryMaxNow)
  \/ TimerRefresh({1})
  \/ RefreshJoin(TideOutcomes(now) \cup {EbbSeries(now)}, WindOutcomes)

SpecTides == InitQuery /\ [][NextTides]_vars

\* Rankings over four hours on a tide that runs fast and slow by turns, with
\* the tide-flow weight set to 1.0 (no key configured, wind unavailable): the
\* hourly scores of a table built on the hour are 10, 90, 10, 90 and then 100.
\* The levels are in 1/1000 ft, an hour apart from the hour before t.
SawLevels == <<0, 45000, 50000, 95000, 100000>>
SawSeries(t) ==
  [i \in 1..Len(SawLevels) |->
     [t |-> HourFloor(t) + (i - 2) * MinutesPerHour, level_ft |-> SawLevels[i]]]

NextSaw ==
  \/ Tick(QueryMaxNow)
  \/ TimerRefresh({1})
  \/ RefreshJoin({<< >>, SawSeries(now)}, {Null})
  \/ CalibrationOf({[wTideFlow |-> 10]})
  \/ RankingsFor({4})

SpecSaw == InitQuery /\ [][NextSaw]_vars

\* ------------------------------------------------------------------ claims
\* The forecast table as the queries see it.
Table == scoreBySiteByTime(cache.scoreBySiteByTime)

\* C2: every ForecastPoint stored in the forecast table has a score in
\* [0,100], whatever the weights, the wind and wave readings (null or not),
\* the tide flow and the rain the table was built from.
C2_ScoreInRange ==
  LET T == Table
  IN \A s \in DOMAIN T :
       LET Ts == T[s]
       IN \A k \in DOMAIN Ts : Ts[k].score >= 0 /\ Ts[k].score <= ScoreMax

\* A table built under updated weights from a wind and a wave reading, with
\* a penalty beyond 100 at one site (score 0) and a score strictly inside
\* the range at another.
C2_Witness ==
  /\ cache.scoreBySiteByTime.built
  /\ weights # DefaultWeights
  /\ ~cache.windLatest.null /\ ~cache.wavesLatest.null
  /\ \E s \in SiteIds : \E k \in DOMAIN Table[s] : Table[s][k].score = 0
  /\ \E s \in SiteIds : \E k \in DOMAIN Table[s] :
       Table[s][k].score > 0 /\ Table[s][k].score < ScoreMax

\* A refresh or a weight update has just completed.
Rebuilt ==
  \/ reply.op = "refreshLog"
  \/ reply.op \in {"adminRefresh", "calibration"} /\ reply.status = 200

\* C10: when a refresh or a weight update has completed, the forecast table
\* holds exactly one entry per site per forecast hour: every site is there
\* with MAX_FORECAST_HOURS entries, one for each of the consecutive hours
\* from the hour of the build, whichever sources were unavailable.
C10_TableComplete ==
  Rebuilt =>
    LET T == Table
    IN /\ DOMAIN T = SiteIds
       /\ \A s \in SiteIds :
            LET Ts == T[s]
            IN /\ Cardinality(DOMAIN Ts) = MAX_FORECAST_HOURS
               /\ {k \div MinutesPerHour : k \in DOMAIN Ts} =
                    {(cache.scoreBySiteByTime.now \div MinutesPerHour) + i :
                       i \in 0..(MAX_FORECAST_HOURS - 1)}
               /\ \A k \in DOMAIN Ts : Ts[k].t = k

\* A table built by a refresh in which all four sources were unavailable.
C10_Witness ==
  /\ Rebuilt
  /\ cache.scoreBySiteByTime.built
  /\ ~cache.sources.coops /\ ~cache.sources.ndbc
  /\ ~cache.sources.openweather /\ ~cache.sources.stormglass
  /\ cache.scoreBySiteByTime.now = cache.lastRefreshedAt
  /\ Cardinality(DOMAIN Table) * Cardinality(DOMAIN Table["stoney-beach"])
       = Cardinality(SiteIds) * MAX_FORECAST_HOURS

\* ---- the wave gate
\* The gate's request counter for the day window of the current instant.
CountInWindow ==
  IF stormglassCache.lastResetDate = DayOf(now)
  THEN stormglassCache.requestsToday ELSE 0

\* (now - cachedAt) < cacheDuration
Fresh ==
  /\ stormglassCache.lastFetchedAt # NullTime
  /\ now - stormglassCache.lastFetchedAt < STORMGLASS_CACHE_HOURS * MinutesPerHour

\* This step starts a refresh in slot p: the gate is called, not forced.
NonForcedCall(p) ==
  procs[p].kind = "idle" /\ procs'[p].kind \in {"timer", "admin"}

\* This step is a forced wave refresh that has passed the admin check.
ForcedCall ==
  \/ \E p \in Procs : procs[p].kind = "idle" /\ procs'[p].kind = "force"
  \/ reply'.op = "forceWave" /\ reply'.status # 401 /\ procs' = procs

\* This step issues a Stormglass request for slot p.
Issues(p) == procs[p].wave.pc = "idle" /\ procs'[p].wave.pc = "fetching"

\* In this step the gate call of slot p, which had a request in flight, returns.
Finishes(p) ==
  /\ procs[p].wave.pc \in {"fetching", "parsing"}
  /\ procs'[p].kind = "idle" \/ procs'[p].wave.pc = "done"

\* What the call of slot p returns in this step, and by which path.
Returned(p) ==
  IF procs[p].kind = "force"
  THEN [ret |-> reply'.data, how |-> reply'.how]
  ELSE [ret |-> procs'[p].wave.ret, how |-> procs'[p].wave.how]

\* C1: under any interleaving of scheduled refreshes, administrative refreshes
\* and forced wave refreshes, the gate's request counter never exceeds the
\* configured daily ceiling.
C1_CounterWithinCeiling ==
  stormglassCache.requestsToday <= STORMGLASS_MAX_DAILY_REQUESTS

\* C3: a non-forced call of the wave gate while the cached value is fresh
\* returns the cached value, issues no request and leaves the counter, the
\* cached value and cachedAt as they were.
C3_FreshCallServedFromCache ==
  [][\A p \in Procs :
       NonForcedCall(p) /\ Fresh =>
         /\ procs'[p].wave.pc = "done"
         /\ procs'[p].wave.ret = stormglassCache.data
         /\ stormglassCache' = stormglassCache]_vars

\* A call one hour after the only request of the day, answered from the cache.
C3_Witness ==
  \E p \in Procs :
    /\ procs[p].wave.how = "cached"
    /\ ~procs[p].wave.ret.null
    /\ now - stormglassCache.lastFetchedAt = MinutesPerHour
    /\ stormglassCache.requestsToday = 1

\* C4: a gate call that issues a request (cache not fresh, counter below the
\* ceiling) and whose fetch succeeds raises the counter by exactly one, when
\* the response arrives and at no other step of the call; it stores the
\* fetched value with cachedAt the current instant and returns that value.
C4_SuccessfulFetch ==
  [][\A p \in Procs :
       /\ Issues(p) =>
            /\ ~Fresh'
            /\ stormglassCache'.requestsToday = CountInWindow
            /\ CountInWindow < STORMGLASS_MAX_DAILY_REQUESTS
       /\ procs[p].wave.pc = "fetching" /\ procs'[p].wave.pc = "parsing" =>
            stormglassCache' =
              [stormglassCache EXCEPT !.requestsToday = @ + 1]
       /\ Finishes(p) /\ Returned(p).how = "fetched" =>
            /\ procs[p].wave.pc = "parsing"
            /\ Returned(p).ret \in {parseWave(b) : b \in WavePayloads}
            /\ stormglassCache'.data = Returned(p).ret
            /\ stormglassCache'.lastFetchedAt = now'
            /\ stormglassCache'.requestsToday = stormglassCache.requestsToday]_vars

\* A refresh holding a value it has just fetched and cached, after an
\* earlier value had gone stale.
C4_Witness ==
  \E p \in Procs :
    /\ procs[p].wave.how = "fetched"
    /\ procs[p].wave.ret = stormglassCache.data
    /\ stormglassCache.lastFetchedAt = now
    /\ now >= StartNow + STORMGLASS_CACHE_HOURS * MinutesPerHour
    /\ stormglassCache.requestsToday = 2

\* C5: every request the gate has sent raises the counter by exactly one when
\* it settles, whatever its outcome (transport failure, non-OK status, or a
\* response whose body turns out malformed).
C5_EveryRequestCounts ==
  [][\A p \in Procs :
       procs[p].wave.pc = "fetching" /\ procs'[p].wave.pc # "fetching" =>
         stormglassCache'.requestsToday = stormglassCache.requestsToday + 1]_vars

\* C6: when the fetch of a gate call fails, the call returns the value cached
\* at that moment, whatever its age (unavailable only if none is cached), and
\* leaves the cached value as it is.
C6_StaleIfError ==
  [][\A p \in Procs :
       Finishes(p) /\ Returned(p).how = "error" =>
         /\ Returned(p).ret = stormglassCache.data
         /\ stormglassCache'.data = stormglassCache.data]_vars

\* A refresh whose fetch failed holds a cached value older than the cache
\* duration.
C6_Witness ==
  \E p \in Procs :
    /\ procs[p].wave.how = "error"
    /\ ~procs[p].wave.ret.null
    /\ procs[p].wave.ret = stormglassCache.data
    /\ stormglassCache.lastFetchedAt # NullTime
    /\ now - stormglassCache.lastFetchedAt >= STORMGLASS_CACHE_HOURS * MinutesPerHour

\* C7: a non-forced call while the counter of the current day window equals
\* the ceiling and the cache is not fresh issues no request, leaves the
\* counter and the cached value as they were and returns the cached value,
\* whatever its age.
C7_StaleIfThrottled ==
  [][\A p \in Procs :
       /\ NonForcedCall(p)
       /\ CountInWindow = STORMGLASS_MAX_DAILY_REQUESTS
       /\ ~Fresh
       => /\ procs'[p].wave.pc = "done"
          /\ procs'[p].wave.ret = stormglassCache.data
          /\ stormglassCache' = stormglassCache]_vars

\* A refresh was refused a request at the ceiling and holds the cached value,
\* older than the cache duration.
C7_Witness ==
  \E p \in Procs :
    /\ procs[p].wave.how = "throttled"
    /\ ~procs[p].wave.ret.null
    /\ CountInWindow = STORMGLASS_MAX_DAILY_REQUESTS
    /\ stormglassCache.lastFetchedAt # NullTime
    /\ now - stormglassCache.lastFetchedAt >= STORMGLASS_CACHE_HOURS * MinutesPerHour

\* The two halves of C8 for a forced refresh, the first under the condition
\* enabled: below the ceiling it issues a request even when the cache is
\* fresh; at the ceiling it answers 429 (RateLimitExceeded), issues no request
\* and leaves the cached value, cachedAt and the counter as they were.
ForcedRefreshPolicy(enabled) ==
  /\ ForcedCall /\ enabled /\ CountInWindow < STORMGLASS_MAX_DAILY_REQUESTS =>
       \E p \in Procs : procs'[p].kind = "force" /\ Issues(p)
  /\ ForcedCall /\ CountInWindow >= STORMGLASS_MAX_DAILY_REQUESTS =>
       /\ reply'.op = "forceWave" /\ reply'.status = 429
       /\ procs' = procs
       /\ stormglassCache' = stormglassCache

\* C8 as stated: a forced wave refresh issues a request whenever the counter
\* is below the ceiling, and fails with RateLimitExceeded, changing nothing,
\* when the counter is at the ceiling.
C8_ForcedRefresh == [][ForcedRefreshPolicy(TRUE)]_vars

\* C8 amended: the same, the first half provided the Stormglass API key is
\* configured.
C8_ForcedRefreshWithKey == [][ForcedRefreshPolicy(env.sgKey)]_vars

\* A forced refresh has a request in flight although a value was cached at
\* this very instant (so fresh), and its invalidation shows.
C8_Witness ==
  \E p \in Procs :
    /\ procs[p].kind = "force" /\ procs[p].wave.pc = "fetching"
    /\ ~stormglassCache.data.null
    /\ stormglassCache.lastFetchedAt = NullTime
    /\ now = StartNow
    /\ CountInWindow = 1

\* C9: a status report never shows a count accumulated in an earlier window:
\* the counts /health and /raw/waves report are those of the window of the
\* current instant.
C9_ReportedCountIsCurrent ==
  /\ reply.op = "rawWaves" => reply.cache.requestsToday = CountInWindow
  /\ reply.op = "health" =>
       /\ reply.stormglass.requestsToday = CountInWindow
       /\ openWeatherCache.lastResetMinute = MinuteOf(now)
       /\ reply.openweather.requestsThisMinute = openWeatherCache.requestsThisMinute

\* ---- the forecast table's keys
\* C11: every key of the forecast table and every ForecastPoint timestamp is
\* on the hour, the first is the hour of the build and consecutive ones are
\* one hour apart, at whatever instant within the hour the table is built.
C11_KeysTruncatedToHour ==
  cache.scoreBySiteByTime.built =>
    LET T == Table
        first == HourFloor(cache.scoreBySiteByTime.now)
    IN \A s \in DOMAIN T :
         LET Ts == T[s]
         IN /\ \A k \in DOMAIN Ts : k = HourFloor(k) /\ Ts[k].t = HourFloor(Ts[k].t)
            /\ DOMAIN Ts = {first + i * MinutesPerHour : i \in 0..(MAX_FORECAST_HOURS - 1)}

\* ---- queries
\* C12: a forecast query issued within the hour in which the table was last
\* built returns, for every site, exactly as many ForecastPoints as the hours
\* it asked for capped at MAX_FORECAST_HOURS, the first of them the point of
\* the current hour, and never more than MAX_FORECAST_HOURS.
C12_ForecastQueryComplete ==
  /\ reply.op = "forecast"
  /\ reply.table.built
  /\ HourFloor(reply.at) = HourFloor(reply.table.now)
  => LET sites == forecastSites(reply.table, reply.at, reply.hours)
     IN \A s \in SiteIds :
          /\ s \in DOMAIN sites
          /\ Len(sites[s]) = reply.hours
          /\ Len(sites[s]) <= MAX_FORECAST_HOURS
          /\ HourFloor(sites[s][1].t) = HourFloor(reply.at)

\* C13: for every forecast hour for which the tide-flow series has an entry,
\* the ForecastPoint of that hour has a tideFlow component of twice the
\* series' magnitude at the hour; the component is zero for the hours
\* without an entry.
C13_TideFlowPerHour ==
  cache.scoreBySiteByTime.built =>
    LET T == Table
        series == cache.scoreBySiteByTime.tideFlowPerTimestamp
    IN \A s \in DOMAIN T :
         LET Ts == T[s]
         IN \A k \in DOMAIN Ts :
              Ts[k].components.tideFlow =
                IF HourFloor(k) \in DOMAIN series
                THEN 2 * series[HourFloor(k)] ELSE 0

\* ---- the ranker
\* Window sizes the ranker is applied with.
WindowSizes == {1, 2, 3}

\* The sum of the w scores of the window of siteData that starts at key k.
WindowSum(siteData, k, w) ==
  LET from(m) == siteData[k + m * MinutesPerHour].score
  IN IF w = 1 THEN from(0)
     ELSE IF w = 2 THEN from(0) + from(1)
     ELSE from(0) + from(1) + from(2)

\* The mean of count scores in 1/10, when it is a whole number of tenths
\* (else a value no avgScore equals).
ExactMean(sum, count) ==
  IF sum % (count * 1000) = 0 THEN sum \div (count * 1000) ELSE 0 - 1

\* The mean of count scores rounded to one decimal, a half rounded up.
MeanToOneDecimal(sum, count) ==
  LET tenths == sum \div (count * 1000)
      rest == sum % (count * 1000)
  IN IF 2 * rest >= count * 1000 THEN tenths + 1 ELSE tenths

\* The ranker's windows, on the table and for the hour count of a ranking
\* just served and for every window size, for a site with n timestamps left
\* after limiting to the hour count: exactly max(0, n - w + 1) of them, one for every start
\* among the first n - w + 1 timestamps, each ending w - 1 hours after its
\* start, within the n timestamps, and carrying the average of its w scores, the
\* exact mean or the mean rounded to one decimal.
RankerWindows(exact) ==
  reply.op = "rankings" /\ reply.table.built =>
    LET T == scoreBySiteByTime(reply.table)
        hours == reply.hours
    IN \A s \in SiteIds, w \in WindowSizes :
         LET siteData == T[s]
             K == DOMAIN siteData
             before == [k \in K |-> Cardinality({j \in K : j < k})]
             n == Min2(Cardinality(K), hours)
             firstN == {k \in K : before[k] < n}
             starts == {k \in K : before[k] < n - w + 1}
             r == findBestWindows(T, s, hours, w)
         IN /\ Len(r) = Max2(0, n - w + 1)
            /\ \A k \in starts : \E j \in 1..Len(r) : r[j].start = k
            /\ \A j \in 1..Len(r) :
                 /\ r[j].start \in starts
                 /\ r[j].end = r[j].start + (w - 1) * MinutesPerHour
                 /\ r[j].end \in firstN
                 /\ r[j].avgScore = IF exact
                                 THEN ExactMean(WindowSum(siteData, r[j].start, w), w)
                                 ELSE MeanToOneDecimal(WindowSum(siteData, r[j].start, w), w)

\* C14 as stated: the ranker returns max(0, n - w + 1) overlapping windows,
\* one per start index, none past the last available timestamp, each
\* carrying the mean of its w scores.
C14_RankerWindows == RankerWindows(TRUE)

\* C14 amended: the same, each window carrying the mean of its w scores
\* rounded to one decimal place.
C14_RankerWindowsRounded == RankerWindows(FALSE)

\* A ranking was served from a table with tide data in which the two
\* windows of the first three hours of a site overlap, the later one has
\* the higher average and comes first, and one average is not the exact mean.
C14_Witness ==
  /\ reply.op = "rankings" /\ reply.hours = 3
  /\ reply.table.built
  /\ LET T == scoreBySiteByTime(reply.table)
         r == findBestWindows(T, "stoney-beach", 3, 2)
     IN /\ Len(r) = 2
        /\ r[1].avgScore # r[2].avgScore
        /\ r[1].start = r[2].end
        /\ \E j \in 1..2 :
             r[j].avgScore * 2000 # WindowSum(T["stoney-beach"], r[j].start, 2)

\* C15: the ranker's result, on the table and for the hour count of a ranking
\* just served and for every window size, is ordered by non-increasing
\* average score, and of two windows with the same average the one that
\* starts earlier comes first.
C15_RankerOrder ==
  reply.op = "rankings" /\ reply.table.built =>
    LET T == scoreBySiteByTime(reply.table)
    IN \A s \in SiteIds, w \in WindowSizes :
         LET r == findBestWindows(T, s, reply.hours, w)
         IN \A i, j \in 1..Len(r) :
              i < j =>
                /\ r[i].avgScore >= r[j].avgScore
                /\ r[i].avgScore = r[j].avgScore => r[i].start < r[j].start

\* A ranking over 24 hours in which the ranker moved a later window ahead of
\* an earlier one with a lower average, and kept two windows of equal
\* average in start order.
C15_Witness ==
  /\ reply.op = "rankings" /\ reply.hours = 24
  /\ reply.table.built
  /\ LET r == findBestWindows(scoreBySiteByTime(reply.table), "devils-foot", 24, 2)
     IN /\ \E i, j \in 1..Len(r) :
             i < j /\ r[i].start > r[j].start /\ r[i].avgScore > r[j].avgScore
        /\ \E i, j \in 1..Len(r) :
             i < j /\ r[i].avgScore = r[j].avgScore /\ r[i].start < r[j].start

\* ---- the snapshot
\* This step completes a refresh, scheduled or administrative.
RefreshCompletes ==
  \/ reply'.op = "refreshLog"
  \/ reply'.op = "adminRefresh" /\ reply'.status = 200

\* C16: a step that completes a refresh leaves the degraded flag true exactly
\* when that refresh got no water levels or no wind observation, whatever it
\* got for rain and waves; every other step (query, weight update, forced
\* wave refresh, a fetch settling) leaves the flag as it was.
C16_DegradedFlag ==
  [][IF RefreshCompletes
     THEN cache'.degraded =
            (Len(cache'.waterLevelHourly) = 0 \/ cache'.windLatest.null)
     ELSE cache'.degraded = cache.degraded]_vars

\* A refresh completed with tides and wind but neither rain nor waves, and
\* the server is not degraded.
C16_Witness ==
  /\ reply.op \in {"refreshLog", "adminRefresh"}
  /\ Len(cache.waterLevelHourly) > 0 /\ ~cache.windLatest.null
  /\ cache.precipSummary72h.null /\ cache.wavesLatest.null
  /\ ~cache.degraded

\* C17: in every state, and so wherever a query can run between the steps of
\* a refresh, the tide-flow series is the one derived from the snapshot's
\* water levels, the source-status flags are those of the snapshot's fields,
\* and the forecast table is built from these very snapshot fields and
\* series: all of one refresh, none of another.
C17_SnapshotCoherent ==
  /\ cache.tideFlowPerTimestamp = computeTideFlow(cache.waterLevelHourly)
  /\ cache.sources = [coops |-> Len(cache.waterLevelHourly) > 0,
                      ndbc |-> ~cache.windLatest.null,
                      openweather |-> ~cache.precipSummary72h.null,
                      stormglass |-> ~cache.wavesLatest.null]
  /\ cache.scoreBySiteByTime.built =>
       /\ cache.scoreBySiteByTime.tideFlowPerTimestamp = cache.tideFlowPerTimestamp
       /\ cache.scoreBySiteByTime.windLatest = cache.windLatest
       /\ cache.scoreBySiteByTime.precipSummary72h = cache.precipSummary72h
       /\ cache.scoreBySiteByTime.wavesLatest = cache.wavesLatest

\* A forecast query answered while a refresh, the second at least, waits for
\* Stormglass, its tide and wind answers still to come, on a snapshot that
\* has water levels, wind and rain.
C17_Witness ==
  /\ reply.op = "forecast"
  /\ \E p \in Procs : procs[p].kind \in {"timer", "admin"}
                      /\ procs[p].wave.pc = "fetching"
  /\ cache.scoreBySiteByTime.built
  /\ cache.sources.coops /\ cache.sources.ndbc /\ cache.sources.openweather

\* ---- adapters
\* C18: whatever way each adapter's request ends, the adapter returns a
\* record or unavailable, never an error; a refresh in flight can always
\* take its next step, up to its end; and when it has ended the table holds
\* a score for every site and every hour of the build.
C18_RefreshSurvivesFailures ==
  /\ \A p \in Procs :
       /\ procs[p].wave.pc = "done" =>
            \/ procs[p].wave.ret = Null
            \/ procs[p].wave.ret \in {parseWave(b) : b \in WavePayloads}
       /\ procs[p].rain.pc = "done" =>
            \/ procs[p].rain.ret = Null
            \/ procs[p].rain.ret \in {parsePrecip(b) : b \in RainPayloads}
       /\ procs[p].kind \in {"timer", "admin"} =>
            ENABLED (\/ WaveResponse \/ WaveBody \/ RainResponse \/ RainBody
                     \/ RefreshJoin(TideOutcomes(now), WindOutcomes))
  /\ reply.op \in {"refreshLog", "adminRefresh"} =>
       /\ cache.waterLevelHourly \in {<< >>, TideSeries(now)}
       /\ cache.windLatest \in {Null, WindObservation}
       /\ LET T == Table
          IN \A s \in SiteIds :
               /\ s \in DOMAIN T
               /\ \A i \in 0..(MAX_FORECAST_HOURS - 1) :
                    LET k == now + i * MinutesPerHour
                    IN /\ k \in DOMAIN T[s]
                       /\ T[s][k].score \in 0..ScoreMax

\* A refresh has ended in which the OpenWeather and the Stormglass request
\* were sent and failed and no wind came, with the server degraded.
C18_Witness ==
  /\ reply.op = "refreshLog"
  /\ cache.lastRefreshedAt = now
  /\ openWeatherCache.requestsThisMinute >= 1 /\ cache.precipSummary72h.null
  /\ stormglassCache.requestsToday >= 1 /\ stormglassCache.data.null
  /\ cache.wavesLatest.null /\ cache.windLatest.null
  /\ cache.degraded

\* ---- rebuilds
\* C19: when a refresh or a weight update has completed, the forecast table
\* holds, for every site, exactly the timestamps of the build just made, each
\* with the ForecastPoint computed from the current snapshot and the current
\* weights: nothing of an earlier build is left.
C19_WholeTableRebuilt ==
  Rebuilt =>
    LET T == Table
        current == [tideFlowPerTimestamp |-> cache.tideFlowPerTimestamp,
                    windLatest |-> cache.windLatest,
                    precipSummary72h |-> cache.precipSummary72h,
                    wavesLatest |-> cache.wavesLatest,
                    weights |-> weights]
        timestamps == {now + i * MinutesPerHour : i \in 0..(MAX_FORECAST_HOURS - 1)}
    IN /\ DOMAIN T = SiteIds
       /\ \A s \in SiteIds :
            LET Ts == T[s]
            IN /\ DOMAIN Ts = timestamps
               /\ \A k \in timestamps : Ts[k] = ForecastPointOf(current, SITES[s], k)

\* A weight update has completed half an hour or more after the refresh that
\* took the snapshot, with tide data in it: the table is rebuilt a second
\* time, at other timestamps and under other weights.
C19_Witness ==
  /\ reply.op = "calibration" /\ reply.status = 200
  /\ cache.sources.coops
  /\ cache.lastRefreshedAt < now
  /\ cache.scoreBySiteByTime.now = now
  /\ weights # DefaultWeights

\* ---- weight updates
\* The forecast table a whole run at this instant writes from the snapshot
\* and the weights in force, and nothing else.
TableOfSnapshot ==
  LET current == [tideFlowPerTimestamp |-> cache.tideFlowPerTimestamp,
                  windLatest |-> cache.windLatest,
                  precipSummary72h |-> cache.precipSummary72h,
                  wavesLatest |-> cache.wavesLatest,
                  weights |-> weights]
  IN [s \in SiteIds |->
        [k \in {now + i * MinutesPerHour : i \in 0..(MAX_FORECAST_HOURS - 1)} |->
           ForecastPointOf(current, SITES[s], k)]]

\* C20: an accepted POST /calibration with a partial update sets exactly the
\* weights the update names, keeps every other weight, and changes no field of
\* the cache but the forecast table (snapshot fields, tide-flow series,
\* degraded flag, sources, refresh time) and neither gate's state; once it has
\* answered, the forecast table is the one computed whole from the snapshot
\* under the new weights.
C20_SetWeightsFrame ==
  /\ [][(CalibrationOf(PartialUpdates) /\ reply'.status = 200) =>
          /\ \E body \in PartialUpdates :
               /\ ValidCalibration(body)
               /\ \A k \in WeightKeys :
                    weights'[k] = IF k \in DOMAIN body THEN body[k] ELSE weights[k]
          /\ DOMAIN weights' = WeightKeys
          /\ cache'.scoreBySiteByTime.weights = weights'
          /\ DOMAIN cache' = DOMAIN cache
          /\ \A f \in DOMAIN cache \ {"scoreBySiteByTime"} : cache'[f] = cache[f]
          /\ stormglassCache' = stormglassCache
          /\ openWeatherCache' = openWeatherCache]_vars
  /\ []((reply.op = "calibration" /\ reply.status = 200) =>
          /\ reply.weights = weights
          /\ Table = TableOfSnapshot)

\* Two updates naming different weights have been accepted after a degraded
\* refresh that counted a request at each gate: the weights of both updates
\* are in force, the others are the initial ones, and the snapshot, the flag
\* and the counters are as the refresh left them.
C20_Witness ==
  /\ reply.op = "calibration" /\ reply.status = 200
  /\ weights.wTideFlow = 30 /\ weights.wSwell = 500 /\ weights.wWind = 0
  /\ weights.wOnshore = DefaultWeights.wOnshore
  /\ weights.wRain = DefaultWeights.wRain
  /\ cache.scoreBySiteByTime.weights = weights
  /\ cache.degraded
  /\ ~cache.wavesLatest.null
  /\ stormglassCache.requestsToday > 0
  /\ openWeatherCache.requestsThisMinute > 0

\* ---- the snapshot's frame
\* The four EnvironmentalSnapshot fields of the cache.
Snapshot ==
  <<cache.waterLevelHourly, cache.windLatest, cache.precipSummary72h, cache.wavesLatest>>

\* C21: a step that changes one of the four snapshot fields is the end of a
\* refresh: the queries, the status queries, a weight update and a forced
\* wave refresh at any of its stages, answered from the gate or by a new
\* reading, leave all four as they were.
C21_SnapshotFrame ==
  [][Snapshot' # Snapshot => RefreshJoin(TideOutcomes(now), WindOutcomes)]_vars

\* A forced wave refresh has fetched and stored a reading other than the one
\* the last refresh put in the snapshot, which is still there.
C21_Witness ==
  /\ reply.op = "forceWave" /\ reply.status = 200 /\ reply.how = "fetched"
  /\ stormglassCache.data = reply.data
  /\ ~cache.wavesLatest.null
  /\ cache.wavesLatest # reply.data
  /\ cache.sources.stormglass

\* ---- missing inputs
\* C22: in every table built, a null wind reading gives wind and onshore
\* components of exactly 0 at every site and hour and a null wave reading a
\* swell component of exactly 0; and an entry computed under the default
\* weights from a wind of speed 0, no rain, no tide flow and no wave reading
\* has the score 100.
C22_MissingInputsZero ==
  LET b == cache.scoreBySiteByTime
  IN b.built =>
       LET T == Table
           noRain == b.precipSummary72h.null \/ b.precipSummary72h.last72h_mm = 0
           calm == ~b.windLatest.null /\ b.windLatest.wind_speed_kt = 0
       IN \A s \in SiteIds :
            LET Ts == T[s]
            IN \A k \in DOMAIN Ts :
                 LET noFlow == k \notin DOMAIN b.tideFlowPerTimestamp
                               \/ b.tideFlowPerTimestamp[k] = 0
                 IN /\ b.windLatest.null =>
                         Ts[k].components.wind = 0 /\ Ts[k].components.onshore = 0
                    /\ b.wavesLatest.null => Ts[k].components.swell = 0
                    /\ (b.weights = DefaultWeights /\ calm /\ noRain /\ noFlow
                        /\ b.wavesLatest.null)
                         => Ts[k].score = ScoreMax

\* A table built under the default weights from a calm and no other reading:
\* no wave reading, no rain, no tide series. Every entry scores 100.
C22_Witness ==
  /\ cache.scoreBySiteByTime.built
  /\ weights = DefaultWeights
  /\ ~cache.windLatest.null /\ cache.windLatest.wind_speed_kt = 0
  /\ cache.wavesLatest.null /\ cache.precipSummary72h.null
  /\ ~cache.sources.coops
  /\ \A s \in SiteIds : \A k \in DOMAIN Table[s] : Table[s][k].score = ScoreMax

\* ---- failed sources
\* C23: a refresh keeps, for every source that failed in it (the source is
\* reported unavailable at its end), the snapshot field as it was before, the
\* value of the last successful fetch, instead of clearing it.
C23_FailedSourceKeepsCached ==
  [][RefreshJoin(TideOutcomes(now), WindOutcomes) =>
       /\ ~cache'.sources.coops => cache'.waterLevelHourly = cache.waterLevelHourly
       /\ ~cache'.sources.ndbc => cache'.windLatest = cache.windLatest
       /\ ~cache'.sources.openweather =>
            cache'.precipSummary72h = cache.precipSummary72h
       /\ ~cache'.sources.stormglass => cache'.wavesLatest = cache.wavesLatest]_vars

\* ---- overlapping refreshes
\* C24: at most one refresh (scheduled or administrative) is in flight at any
\* time: one that arrives while another is still running is skipped.
C24_OneRefreshInFlight ==
  Cardinality({p \in Procs : procs[p].kind \in {"timer", "admin"}}) <= 1

\* ---- progress
\* C25: every refresh that has started eventually completes (its snapshot
\* stored, the table rebuilt and lastRefreshedAt set, which is one step, the
\* one that ends it), whatever the upstream sources do.
C25_RefreshEventuallyCompletes ==
  (procs[1].kind = "timer") ~> (procs[1].kind = "idle")

\* ---- the wind adapter
\* C26: a refresh stores as wind reading the reading of the first NDBC
\* endpoint, in order, whose payload is well-formed, a malformed answer of an
\* earlier endpoint notwithstanding, and no reading only when no endpoint
\* gives a well-formed payload.
C26_WindFirstWellFormed ==
  [][RefreshJoin(TideOutcomes(now), {fetchWindDataFrom(ndbc)}) =>
       LET wellFormed == {i \in NdbcEndpoints : ndbc[i] = "ok"}
       IN cache'.windLatest =
            IF wellFormed = {} THEN Null
            ELSE NdbcReading(CHOOSE j \in wellFormed : \A k \in wellFormed : j <= k)]_vars

\* ---- admin protection
\* C27: a weight update, a forced data refresh or a forced wave refresh whose
\* x-admin-secret header is missing or is not the configured secret (any
\* header at all when no secret is configured) is answered 401 and changes
\* nothing: not the weights, the cache (snapshot and table), either gate's
\* value, time and counter, nor the operations in flight, so that it sends no
\* upstream request.
C27_UnauthorizedRejected ==
  [][\A hdr \in Headers :
       (hdr = "" \/ hdr # env.adminSecret) =>
         ((\/ AdminRefreshAs(hdr, {1})
           \/ ForceWaveRefreshAs(hdr, {1})
           \/ \E body \in CalibrationBodies : CalibrationAs(hdr, body))
          => /\ "status" \in DOMAIN reply' /\ reply'.status = 401
             /\ UNCHANGED <<weights, cache, stormglassCache, openWeatherCache, procs>>)]_vars

\* A forced wave refresh has been refused on a server without an admin secret
\* that holds a wave reading and has counted requests at both gates.
C27_Witness ==
  /\ reply.op = "forceWave" /\ reply.status = 401
  /\ env.adminSecret = ""
  /\ cache.scoreBySiteByTime.built
  /\ ~cache.wavesLatest.null
  /\ stormglassCache.requestsToday > 0
  /\ openWeatherCache.requestsThisMinute > 0

\* ---- repeated refreshes
\* C28: a refresh that completes in the hour in which the previous refresh
\* left its table (built from tide and wind data), with the same weights and
\* with every source returning what it returned then (the snapshot it stores
\* is the snapshot it found), leaves
\* a forecast table identical to that one: the same timestamps, and under
\* each the same score and components.
C28_RefreshIdempotent ==
  [][(/\ RefreshJoin(TideOutcomes(now), WindOutcomes)
      /\ cache.scoreBySiteByTime.built
      /\ cache.scoreBySiteByTime.now = cache.lastRefreshedAt
      /\ cache.sources.coops /\ cache.sources.ndbc
      /\ cache.scoreBySiteByTime.weights = weights
      /\ HourFloor(cache.lastRefreshedAt) = HourFloor(now)
      /\ Snapshot' = Snapshot)
     => scoreBySiteByTime(cache'.scoreBySiteByTime)
          = scoreBySiteByTime(cache.scoreBySiteByTime)]_vars

\* ---- the onshore component
\* C29: for the wind reading of every snapshot and the shore bearing of every
\* site, the onshore component (in 1/1000 kt) is not negative, is 0 when the
\* wind direction is 180 degrees from the bearing and is the wind speed when
\* it is the bearing; it is the onshore component of that site's table entries.
C29_OnshoreComponent ==
  LET b == cache.scoreBySiteByTime
  IN (b.built /\ ~b.windLatest.null) =>
       LET T == Table
       IN \A s \in SiteIds :
            LET bearing == SITES[s].shorelineBearingTowardShore
                offset == normalizeAngle(b.windLatest.wind_dir_deg - bearing)
                onshore == calculateOnshoreComponent(b.windLatest.wind_dir_deg,
                                                     b.windLatest.wind_speed_kt, bearing)
                Ts == T[s]
            IN /\ onshore >= 0
               /\ offset = 180 => onshore = 0
               /\ offset = 0 => onshore = b.windLatest.wind_speed_kt * 1000
               /\ \A k \in DOMAIN Ts : Ts[k].components.onshore = onshore

\* A table built from a wind of 20 kt that blows straight off one shore
\* (component 0 there) and onto another (a positive component there).
C29_Witness ==
  /\ cache.scoreBySiteByTime.built
  /\ ~cache.windLatest.null
  /\ cache.windLatest.wind_speed_kt = 20
  /\ \E s \in SiteIds :
       /\ normalizeAngle(cache.windLatest.wind_dir_deg
                         - SITES[s].shorelineBearingTowardShore) = 180
       /\ \A k \in DOMAIN Table[s] : Table[s][k].components.onshore = 0
  /\ \E s \in SiteIds : \E k \in DOMAIN Table[s] : Table[s][k].components.onshore > 0

\* ---- sources without a key
\* C30: on a server without the OpenWeather key no rain request is ever in
\* flight, the rain adapter returns null, the rain counter stays where it
\* was and the snapshot has no rain; likewise for Stormglass and the waves;
\* and a refresh that completes there leaves a table with a score for every
\* site and forecast hour, and the degraded flag set only if the tides or
\* the wind were unavailable.
C30_NoKeyNoRequest ==
  /\ ~env.owKey =>
       /\ \A p \in Procs : procs[p].rain.pc \in {"idle", "done"} /\ procs[p].rain.ret = Null
       /\ openWeatherCache.requestsThisMinute = 0
       /\ cache.precipSummary72h = Null /\ ~cache.sources.openweather
  /\ ~env.sgKey =>
       /\ \A p \in Procs : procs[p].wave.pc \in {"idle", "done"} /\ procs[p].wave.ret = Null
       /\ stormglassCache.requestsToday = 0 /\ stormglassCache.data = Null
       /\ cache.wavesLatest = Null /\ ~cache.sources.stormglass
       /\ reply.op = "forceWave" /\ reply.status = 200 => reply.data = Null
  /\ ((~env.owKey \/ ~env.sgKey)
      /\ (reply.op = "refreshLog" \/ (reply.op = "adminRefresh" /\ reply.status = 200)))
       => /\ cache.degraded = (~cache.sources.coops \/ ~cache.sources.ndbc)
          /\ LET T == Table
             IN /\ DOMAIN T = SiteIds
                /\ \A s \in SiteIds :
                     LET Ts == T[s]
                     IN /\ Cardinality(DOMAIN Ts) = MAX_FORECAST_HOURS
                        /\ \A k \in DOMAIN Ts : Ts[k].score \in 0..ScoreMax

\* A refresh has completed on a server with the Stormglass key and without
\* the OpenWeather key: tides, wind and waves are there, rain is not, a wave
\* request was counted, no rain request was, and the flag is not set.
C30_Witness ==
  /\ reply.op = "refreshLog"
  /\ env.sgKey /\ ~env.owKey
  /\ cache.sources.coops /\ cache.sources.ndbc /\ cache.sources.stormglass
  /\ ~cache.sources.openweather
  /\ ~cache.degraded
  /\ stormglassCache.requestsToday > 0
  /\ openWeatherCache.requestsThisMinute = 0
  /\ cache.scoreBySiteByTime.built

\* ---- forced refreshes that fail
\* C31: a forced wave refresh whose fetch fails leaves the gate's cached value
\* and cachedAt as they were before the call, so a cache that was fresh before
\* it is fresh after it. The gate stores a value and its cachedAt together,
\* so before the call a cached value has its cachedAt: when the fetch of the
\* forced call fails, that step changes neither of the two and the value
\* still cached has its cachedAt.
C31_FailedForcedRefreshKeepsCache ==
  [][\A p \in Procs :
       procs[p].kind = "force" /\ Finishes(p) /\ Returned(p).how = "error"
       => /\ stormglassCache'.data = stormglassCache.data
          /\ stormglassCache'.lastFetchedAt = stormglassCache.lastFetchedAt
          /\ ~stormglassCache'.data.null =>
               stormglassCache'.lastFetchedAt # NullTime]_vars

\* ---- overlapping refreshes
\* C32: when two refresh sequences overlap, once both have completed the
\* snapshot, the forecast table and lastRefreshedAt hold the results of the
\* one started last. So when a refresh completes right after a scheduled
\* refresh that was started later than it (the completion line of that one
\* gives its duration, hence its start), it leaves the cache as that one
\* wrote it.
C32_LastStartedWins ==
  [][\A p \in Procs :
       /\ procs[p].kind \in {"timer", "admin"} /\ procs'[p].kind = "idle"
       /\ reply.op = "refreshLog"
       /\ procs[p].startTime < cache.lastRefreshedAt - reply.duration
       => cache' = cache]_vars

\* ---- the cached wave value stays
\* C33: once the wave gate has cached a value, the cached value never becomes
\* null again, and every gate call that returns from then on (from the fresh
\* cache, throttled, after a failed fetch, after a successful one, forced or
\* not) returns a non-null wave record, whatever operations and window resets
\* come in between.
C33_CachedValueStays ==
  [][~stormglassCache.data.null =>
       /\ ~stormglassCache'.data.null
       /\ \A p \in Procs :
            /\ NonForcedCall(p) /\ procs'[p].wave.pc = "done" =>
                 ~procs'[p].wave.ret.null
            /\ Finishes(p) => ~Returned(p).ret.null
       /\ reply'.op = "forceWave" /\ reply'.status = 200 => ~reply'.data.null]_vars

\* In the day window after the one the value was cached in, a forced refresh
\* whose fetch failed has answered with the cached value.
C33_Witness ==
  /\ reply.op = "forceWave" /\ reply.status = 200
  /\ reply.how = "error"
  /\ ~reply.data.null
  /\ reply.data = stormglassCache.data
  /\ DayOf(now) > DayOf(StartNow)
  /\ stormglassCache.lastResetDate = DayOf(now)
  /\ stormglassCache.requestsToday <= 1

\* ---- the precipitation gate
\* The rain gate's request counter for the minute window of the current
\* instant.
RainCountInWindow ==
  IF openWeatherCache.lastResetMinute = MinuteOf(now)
  THEN openWeatherCache.requestsThisMinute ELSE 0

\* C34: the precipitation gate follows the policy of the wave gate: its
\* per-minute counter never exceeds its ceiling, and a call made when the
\* quota of the minute is exhausted issues no request, leaves the counter as
\* it was and returns the last cached precipitation value (the one the
\* snapshot holds), unavailable only if there is none.
C34_RainGatePolicy ==
  [][/\ openWeatherCache'.requestsThisMinute <= OPENWEATHER_MAX_REQUESTS_PER_MINUTE
     /\ \A p \in Procs :
          /\ NonForcedCall(p)
          /\ env.owKey
          /\ RainCountInWindow >= OPENWEATHER_MAX_REQUESTS_PER_MINUTE
          => /\ procs'[p].rain.pc = "done"
             /\ openWeatherCache'.requestsThisMinute = RainCountInWindow
             /\ procs'[p].rain.ret = cache.precipSummary72h]_vars

\* ---- components along the hours
\* The components of a ForecastPoint other than tideFlow.
HourlessComponents(point) ==
  [wind |-> point.components.wind, onshore |-> point.components.onshore,
   rain |-> point.components.rain, swell |-> point.components.swell]

\* C35: within one built forecast table, for each site the wind, onshore, rain
\* and swell components are the same at every forecast hour; only the
\* tideFlow component, and with it the score, may differ between the hours of
\* a site.
C35_OnlyTideFlowVaries ==
  LET T == Table
  IN \A s \in DOMAIN T :
       \A t1 \in DOMAIN T[s] :
         HourlessComponents(T[s][t1]) =
           HourlessComponents(T[s][cache.scoreBySiteByTime.now])

\* A table built with wind, rain and waves available, in which a site's
\* tideFlow component and score differ between two hours while its rain and
\* swell components are not zero.
C35_Witness ==
  /\ cache.scoreBySiteByTime.built
  /\ LET site == Table["stoney-beach"]
         t0 == cache.scoreBySiteByTime.now
     IN /\ site[t0].components.tideFlow # site[t0 + MinutesPerHour].components.tideFlow
        /\ site[t0].score # site[t0 + MinutesPerHour].score
        /\ site[t0].components.rain > 0
        /\ site[t0].components.swell > 0
        /\ site[t0].components.wind > 0

\* ---- the tide-flow series
\* C36: after every refresh the tide-flow series contains only entries
\* derived from the water-level series fetched in that refresh: each key is
\* the instant of an entry of that series after its first, with the magnitude
\* |level - previous level| per hour between the two, so no key of an earlier
\* series survives and the series is empty when the tide source was
\* unavailable; and every magnitude is non-negative.
C36_TideFlowOfThisRefresh ==
  LET levels == cache.waterLevelHourly
      flow == cache.tideFlowPerTimestamp
  IN /\ Len(levels) = 0 => DOMAIN flow = {}
     /\ \A k \in DOMAIN flow :
          /\ flow[k] >= 0
          /\ \E i \in 2..Len(levels) :
               LET rise == levels[i].level_ft - levels[i - 1].level_ft
               IN /\ levels[i].t = k
                  /\ levels[i].t > levels[i - 1].t
                  /\ flow[k] = ((IF rise < 0 THEN 0 - rise ELSE rise) * MinutesPerHour)
                                 \div (levels[i].t - levels[i - 1].t)

\* A refresh an hour or more after the start has completed on a falling tide:
\* the series has the keys of the fetched entries after the first, with a
\* positive magnitude where the level fell.
C36_Witness ==
  /\ reply.op = "refreshLog"
  /\ cache.lastRefreshedAt >= StartNow + MinutesPerHour
  /\ cache.waterLevelHourly = EbbSeries(now)
  /\ DOMAIN cache.tideFlowPerTimestamp =
       {cache.waterLevelHourly[i].t : i \in 2..Len(cache.waterLevelHourly)}
  /\ cache.tideFlowPerTimestamp[HourFloor(now)] = 600

\* ---- four hours of scores 10, 90, 10, 90
\* The scores of siteData at its first four timestamps, in 1/10000.
FirstFourScores(siteData) ==
  LET timestamps == sliceTo(sortedKeys(siteData), 4)
  IN [i \in 1..Len(timestamps) |-> siteData[timestamps[i]].score]

\* For every site whose hourly scores are 10, 90, 10, 90 in the table of a
\* ranking served over four hours, the ranker with window size 2 gives three
\* windows, each of average 50 (avgScore is in 1/10), and the first of them
\* starts at the timestamp of 0-based index first and ends at the next one.
SawRanking(first) ==
  reply.op = "rankings" /\ reply.hours = 4 /\ reply.table.built =>
    LET T == scoreBySiteByTime(reply.table)
    IN \A s \in SiteIds :
         FirstFourScores(T[s]) = <<100000, 900000, 100000, 900000>> =>
           LET r == findBestWindows(T, s, 4, 2)
               t0 == reply.table.now
           IN /\ Len(r) = 3
              /\ \A j \in 1..3 : r[j].avgScore = 500
              /\ r[1].start = t0 + first * MinutesPerHour
              /\ r[1].end = t0 + (first + 1) * MinutesPerHour

\* C37 as stated: for a site whose four consecutive hourly scores are
\* [10, 90, 10, 90] and window size 2, every window has average 50 and the
\* first window of the ranker's result is the one over indices (1,2), counted
\* from 0 as the windows (0,1) and (2,3) beside it are.
C37_SawFirstWindow == SawRanking(1)

\* C37 amended: the same, the first window of the result being the one over
\* indices (0,1), the earliest of the three equal averages.
C37_SawFirstWindowEarliest == SawRanking(0)

\* A ranking over four hours was served from a table whose scores for a site
\* are 10, 90, 10, 90, and the ranker's three windows for it all average 50.
C37_Witness ==
  /\ reply.op = "rankings" /\ reply.hours = 4 /\ reply.table.built
  /\ LET T == scoreBySiteByTime(reply.table)
         r == findBestWindows(T, "stoney-beach", 4, 2)
     IN /\ FirstFourScores(T["stoney-beach"]) = <<100000, 900000, 100000, 900000>>
        /\ Len(r) = 3
        /\ r[1].avgScore = 500 /\ r[3].avgScore = 500
        /\ r[1].start < r[2].start /\ r[2].start < r[3].start

====
